---- MODULE Spec2Model ----
(***************************************************************************)
(* A model of ccs, the read-only reader of Cursor's conversation store.    *)
(*                                                                         *)
(* Text is modelled as a sequence of one-character strings, so that        *)
(* trimming, lower-casing, pattern escaping and LIKE matching are computed *)
(* character by character as the code and SQLite compute them.             *)
(* Instants are integers counting minutes since 2024-01-01 00:00 local     *)
(* time; a timedelta is a number of minutes.                               *)
(***************************************************************************)
EXTENDS Integers, Sequences, FiniteSets, TLC

VARIABLES
    store,      \* the rows of table cursorDiskKV, in table (rowid) order
    now,        \* the wall clock read by datetime.now()
    call,       \* the last call made: its operation and arguments
    result,     \* what that call returned or raised
    self,       \* the attributes of the CursorDatabase object
    connections \* the number of sqlite3 connections of the object that are open

vars == <<store, now, call, result, self, connections>>

(***************************************************************************)
(* Optional values (Python's None) and call outcomes.                      *)
(***************************************************************************)
NoneInt == [some |-> FALSE, v |-> 0]
SomeInt(x) == [some |-> TRUE, v |-> x]
NoneStr == [some |-> FALSE, v |-> <<>>]
SomeStr(s) == [some |-> TRUE, v |-> s]

\* Python truthiness of an Optional[str]: None and "" are falsy.
Truthy(s) == s.some /\ s.v # <<>>

Returned(x) == [raised |-> "", value |-> x]
Raised(e) == [raised |-> e, value |-> <<>>]

NoCall == [op |-> "none"]
NoResult == Returned(<<>>)

(***************************************************************************)
(* Characters and the str methods the code uses.                           *)
(***************************************************************************)
Whitespace == {" ", "\t", "\n"}

DigitChars == <<"0", "1", "2", "3", "4", "5", "6", "7", "8", "9">>
IsDigit(c) == \E i \in 1..Len(DigitChars) : DigitChars[i] = c
DigitVal(c) == (CHOOSE i \in 1..Len(DigitChars) : DigitChars[i] = c) - 1

\* The ASCII letters that occur in upper case in the texts of this model.
AsciiLower == <<"a", "b", "c", "d", "e", "g", "h", "i", "k", "m", "n", "o", "r", "s", "t", "u", "w", "x", "y">>
AsciiUpper == <<"A", "B", "C", "D", "E", "G", "H", "I", "K", "M", "N", "O", "R", "S", "T", "U", "W", "X", "Y">>

\* One character of str.lower() / SQLite's LOWER() on ASCII letters.
AsciiLowerChar(c) ==
    IF \E i \in 1..Len(AsciiUpper) : AsciiUpper[i] = c
    THEN AsciiLower[CHOOSE i \in 1..Len(AsciiUpper) : AsciiUpper[i] = c]
    ELSE c

\* str.lower(): Unicode aware.
PyLowerChar(c) == IF c = "É" THEN "é" ELSE AsciiLowerChar(c)
str_lower(s) == [i \in 1..Len(s) |-> PyLowerChar(s[i])]

RECURSIVE str_lstrip(_)
str_lstrip(s) ==
    IF s # <<>> /\ Head(s) \in Whitespace THEN str_lstrip(Tail(s)) ELSE s

RECURSIVE str_rstrip(_)
str_rstrip(s) ==
    IF s # <<>> /\ s[Len(s)] \in Whitespace
    THEN str_rstrip(SubSeq(s, 1, Len(s) - 1))
    ELSE s

str_strip(s) == str_rstrip(str_lstrip(s))

StartsWith(s, p) == Len(p) <= Len(s) /\ SubSeq(s, 1, Len(p)) = p

\* str.replace(old, new) for a non-empty old: left to right, non-overlapping.
RECURSIVE str_replace(_, _, _)
str_replace(s, old, new) ==
    IF s = <<>> THEN <<>>
    ELSE IF StartsWith(s, old)
         THEN new \o str_replace(SubSeq(s, Len(old) + 1, Len(s)), old, new)
         ELSE <<Head(s)>> \o str_replace(Tail(s), old, new)

\* int() of a run of decimal digits.
RECURSIVE ParseInt(_)
ParseInt(ds) ==
    IF ds = <<>> THEN 0
    ELSE ParseInt(SubSeq(ds, 1, Len(ds) - 1)) * 10 + DigitVal(ds[Len(ds)])

\* str(n) for n >= 0.
RECURSIVE ToDigits(_)
ToDigits(n) ==
    IF n < 10 THEN <<DigitChars[n + 1]>>
    ELSE ToDigits(n \div 10) \o <<DigitChars[(n % 10) + 1]>>

IsSpace(c) == c \in Whitespace

\* Length of the longest prefix of s made of digits: what (\d+) takes.
DigitsLen(s) ==
    CHOOSE k \in 0..Len(s) :
        /\ \A i \in 1..k : IsDigit(s[i])
        /\ (k = Len(s) \/ ~IsDigit(s[k + 1]))

\* Length of the longest prefix of s made of whitespace: what \s* takes.
SpacesLen(s) ==
    CHOOSE k \in 0..Len(s) :
        /\ \A i \in 1..k : IsSpace(s[i])
        /\ (k = Len(s) \/ ~IsSpace(s[k + 1]))

\* Length of the longest prefix of s free of whitespace: what (\S+) takes.
WordLen(s) ==
    CHOOSE k \in 0..Len(s) :
        /\ \A i \in 1..k : ~IsSpace(s[i])
        /\ (k = Len(s) \/ IsSpace(s[k + 1]))

(***************************************************************************)
(* datetime_utils.parse_relative_time                                      *)
(***************************************************************************)
MinutesPerHour == 60
MinutesPerDay == 1440
DaysPerWeek == 7
DaysPerMonth == 30
DaysPerYear == 365


AgoSuffix == <<" ", "a", "g", "o">>

\* The unit alternation of the pattern, in the order the regex tries it.
UnitAlternation == <<
    <<"m","i","n","u","t","e">>,
    <<"m","i","n","u","t","e","s">>,
    <<"m","i","n">>,
    <<"m","i","n","s">>,
    <<"m">>,
    <<"h","o","u","r">>,
    <<"h","o","u","r","s">>,
    <<"h","r">>,
    <<"h","r","s">>,
    <<"h">>,
    <<"d","a","y">>,
    <<"d","a","y","s">>,
    <<"d">>,
    <<"w","e","e","k">>,
    <<"w","e","e","k","s">>,
    <<"w">>,
    <<"m","o","n","t","h">>,
    <<"m","o","n","t","h","s">>,
    <<"m","o">>,
    <<"y","e","a","r">>,
    <<"y","e","a","r","s">>,
    <<"y">> >>

MinuteUnits == {<<"m","i","n","u","t","e">>, <<"m","i","n","u","t","e","s">>, <<"m","i","n">>, <<"m","i","n","s">>, <<"m">>}
HourUnits == {<<"h","o","u","r">>, <<"h","o","u","r","s">>, <<"h","r">>, <<"h","r","s">>, <<"h">>}
DayUnits == {<<"d","a","y">>, <<"d","a","y","s">>, <<"d">>}
WeekUnits == {<<"w","e","e","k">>, <<"w","e","e","k","s">>, <<"w">>}
MonthUnits == {<<"m","o","n","t","h">>, <<"m","o","n","t","h","s">>, <<"m","o">>}
YearUnits == {<<"y","e","a","r">>, <<"y","e","a","r","s">>, <<"y">>}

\* The least element of a non-empty set of integers.
Least(S) == CHOOSE i \in S : \A j \in S : i <= j

\* The alternatives of the alternation that match at the start of rest,
\* tried in the order written.
UnitHits(rest) == {i \in 1..Len(UnitAlternation) : StartsWith(rest, UnitAlternation[i])}

FirstUnitHit(rest) == Least(UnitHits(rest))

\* The alternative the regex engine takes: the first that matches.
MatchedUnit(rest) == UnitAlternation[FirstUnitHit(rest)]

\* What follows the (\d+)\s* part of the pattern.
AfterAmount(s) ==
    SubSeq(SubSeq(s, DigitsLen(s) + 1, Len(s)),
           SpacesLen(SubSeq(s, DigitsLen(s) + 1, Len(s))) + 1,
           Len(s) - DigitsLen(s))

\* re.match(pattern, s): (\d+) greedy, \s* greedy, then the first alternative
\* of the alternation that is a prefix of what follows.  The match is anchored
\* at the start only; text after the unit is ignored.
RelativeMatch(s) ==
    IF DigitsLen(s) = 0 \/ UnitHits(AfterAmount(s)) = {}
    THEN [matched |-> FALSE, amount |-> 0, unit |-> <<>>]
    ELSE [matched |-> TRUE,
          amount |-> ParseInt(SubSeq(s, 1, DigitsLen(s))),
          unit |-> MatchedUnit(AfterAmount(s))]

\* The if/elif chain mapping the matched unit to a timedelta (in minutes).
UnitDelta(unit, amount) ==
    IF unit \in MinuteUnits THEN SomeInt(amount)
    ELSE IF unit \in HourUnits THEN SomeInt(amount * MinutesPerHour)
    ELSE IF unit \in DayUnits THEN SomeInt(amount * MinutesPerDay)
    ELSE IF unit \in WeekUnits THEN SomeInt(amount * DaysPerWeek * MinutesPerDay)
    ELSE IF unit \in MonthUnits THEN SomeInt(amount * DaysPerMonth * MinutesPerDay)
    ELSE IF unit \in YearUnits THEN SomeInt(amount * DaysPerYear * MinutesPerDay)
    ELSE NoneInt

\* time_str.lower().strip().replace(' ago', '').strip()
NormalizeTimeStr(time_str) ==
    str_strip(str_replace(str_strip(str_lower(time_str)), AgoSuffix, <<>>))

\* datetime.now() - delta, or None when nothing matched.
RelativeResult(m, t_now) ==
    IF ~m.matched THEN NoneInt
    ELSE IF ~UnitDelta(m.unit, m.amount).some THEN NoneInt
    ELSE SomeInt(t_now - UnitDelta(m.unit, m.amount).v)

parse_relative_time(time_str, t_now) ==
    RelativeResult(RelativeMatch(NormalizeTimeStr(time_str)), t_now)

(***************************************************************************)
(* datetime_utils.parse_absolute_datetime and parse_datetime               *)
(*                                                                         *)
(* datetime.strptime is modelled on the texts the model draws: a date of   *)
(* January 2024 written 2024-01-DD parses under '%Y-%m-%d' to midnight of  *)
(* that day; none of the drawn texts has the shape of another format.      *)
(***************************************************************************)
Formats == <<"%Y-%m-%d", "%Y-%m-%d %H:%M", "%Y-%m-%d %H:%M:%S",
             "%Y-%m-%dT%H:%M:%S", "%m/%d/%Y", "%m/%d/%Y %H:%M", "%d/%m/%Y">>

JanuaryPrefix == <<"2", "0", "2", "4", "-", "0", "1", "-">>

strptime(date_str, fmt) ==
    IF /\ fmt = "%Y-%m-%d"
       /\ Len(date_str) = Len(JanuaryPrefix) + 2
       /\ StartsWith(date_str, JanuaryPrefix)
       /\ IsDigit(date_str[9]) /\ IsDigit(date_str[10])
       /\ ParseInt(SubSeq(date_str, 9, 10)) \in 1..31
    THEN SomeInt((ParseInt(SubSeq(date_str, 9, 10)) - 1) * MinutesPerDay)
    ELSE NoneInt

\* The formats under which date_str parses.
FormatHits(date_str) == {i \in 1..Len(Formats) : strptime(date_str, Formats[i]).some}

parse_absolute_datetime(date_str) ==
    IF FormatHits(date_str) = {} THEN NoneInt
    ELSE strptime(date_str, Formats[Least(FormatHits(date_str))])

\* `if result: return result`, else the absolute parse.
FirstSome(relative, absolute) == IF relative.some THEN relative ELSE absolute

parse_datetime(time_str, t_now) ==
    FirstSome(parse_relative_time(time_str, t_now), parse_absolute_datetime(time_str))

(***************************************************************************)
(* datetime_utils.filter_by_time_range                                     *)
(*                                                                         *)
(* An item is [id, created]; created is [kind, v] with kind "datetime" (v  *)
(* the instant), "None", or "str" (a truthy value that is not a datetime). *)
(***************************************************************************)
NoCreated == [kind |-> "None", v |-> 0]
CreatedAt(t) == [kind |-> "datetime", v |-> t]
CreatedText == [kind |-> "str", v |-> 0]

KeepItemBeforeInclusive(item, since_dt, before_dt) ==
    /\ item.created.kind # "None"
    /\ item.created.kind = "datetime"
    /\ ~(since_dt.some /\ item.created.v < since_dt.v)
    /\ ~(before_dt.some /\ item.created.v > before_dt.v)

\* The body of the loop: TRUE when no `continue` is taken.
KeepItem(item, since_dt, before_dt) ==
    /\ item.created.kind # "None"
    /\ item.created.kind = "datetime"
    /\ ~(since_dt.some /\ item.created.v < since_dt.v)
    /\ ~(before_dt.some /\ item.created.v >= before_dt.v)

RECURSIVE FilterLoop(_, _, _)
FilterLoop(items, since_dt, before_dt) ==
    IF items = <<>> THEN <<>>
    ELSE (IF KeepItem(Head(items), since_dt, before_dt) THEN <<Head(items)>> ELSE <<>>)
         \o FilterLoop(Tail(items), since_dt, before_dt)

\* since_dt / before_dt as assigned before the loop: None unless the text is given.
ParsedBound(bound, t_now) ==
    IF Truthy(bound) THEN parse_datetime(bound.v, t_now) ELSE NoneInt

FilterParsed(items, since, before, since_dt, before_dt) ==
    IF Truthy(since) /\ ~since_dt.some THEN Raised("ValueError")
    ELSE IF Truthy(before) /\ ~before_dt.some THEN Raised("ValueError")
    ELSE Returned(FilterLoop(items, since_dt, before_dt))

filter_by_time_range(items, since, before, t_now) ==
    IF ~Truthy(since) /\ ~Truthy(before) THEN Returned(items)
    ELSE FilterParsed(items, since, before,
                      ParsedBound(since, t_now), ParsedBound(before, t_now))

(***************************************************************************)
(* The store: table cursorDiskKV.                                          *)
(*                                                                         *)
(* A row is [key, value].  A key is [prefix, rest]: the text               *)
(* prefix ":" rest, with rest = {composerId} for a composerData row and    *)
(* {composerId}:{bubbleId} for a bubbleId or codeBlockDiff row.  A value   *)
(* is the decoded JSON object: an absent member is NoneStr (no member is   *)
(* JSON null).                                                             *)
(*   composerData value: [name, subtitle, text, createdAt, codeBlockData]  *)
(*     createdAt in milliseconds (0 when absent); codeBlockData a sequence *)
(*     of code edits [file, bubbleId], one per {file_uri: {block_id: ..}}  *)
(*   bubbleId value: [bubbleId, text]                                      *)
(*   codeBlockDiff value: [originalText, modifiedText]                     *)
(* A composerData value carries no composerId member other than the id of  *)
(* its key.                                                                *)
(***************************************************************************)
Colon == ":"

HasColon(s) == \E i \in 1..Len(s) : s[i] = Colon
FirstColon(s) == CHOOSE i \in 1..Len(s) : s[i] = Colon /\ \A j \in 1..(i - 1) : s[j] # Colon

\* SUBSTR(key, 14) on a composerData key: all that follows "composerData:".
SubstrAfterPrefix(key) == key.rest

\* SUBSTR(key, n, INSTR(SUBSTR(key, n), ':') - 1) with n just after the prefix:
\* the text up to the next colon.  Without a colon INSTR is 0 and SUBSTR with
\* length -1 yields the one character before position n, the prefix's colon.
SubstrToColon(key) ==
    IF HasColon(key.rest) THEN SubSeq(key.rest, 1, FirstColon(key.rest) - 1)
    ELSE <<Colon>>

\* row[0].split(':')[1]
SplitSecond(key) ==
    IF HasColon(key.rest) THEN SubSeq(key.rest, 1, FirstColon(key.rest) - 1)
    ELSE key.rest

IsConvRow(r) == r.key.prefix = "composerData"
IsMsgRow(r) == r.key.prefix = "bubbleId"
IsDiffRow(r) == r.key.prefix = "codeBlockDiff"

\* SQLite's one-argument TRIM removes spaces only (not tabs or newlines).
RECURSIVE SqlLTrim(_)
SqlLTrim(s) == IF s # <<>> /\ Head(s) = " " THEN SqlLTrim(Tail(s)) ELSE s

RECURSIVE SqlRTrim(_)
SqlRTrim(s) ==
    IF s # <<>> /\ s[Len(s)] = " " THEN SqlRTrim(SubSeq(s, 1, Len(s) - 1)) ELSE s

SqlTrim(s) == SqlRTrim(SqlLTrim(s))

Coalesce(opt, default) == IF opt.some THEN opt.v ELSE default

RECURSIVE SeqSum(_)
SeqSum(ns) == IF ns = <<>> THEN 0 ELSE Head(ns) + SeqSum(Tail(ns))

AppendIfNew(front, x) ==
    IF \E i \in 1..Len(front) : front[i] = x THEN front ELSE Append(front, x)

\* Elements of a sequence in order, each kept at its first occurrence.
RECURSIVE Distinct(_)
Distinct(xs) ==
    IF xs = <<>> THEN <<>>
    ELSE AppendIfNew(Distinct(SubSeq(xs, 1, Len(xs) - 1)), xs[Len(xs)])

RECURSIVE Flatten(_)
Flatten(xss) == IF xss = <<>> THEN <<>> ELSE Head(xss) \o Flatten(Tail(xss))

(***************************************************************************)
(* CursorDatabase.list_conversations: the SQL query                        *)
(***************************************************************************)
MessageOf(row) ==
    [composer_id |-> SubstrToColon(row.key),
     bubble_id |-> row.value.bubbleId,
     has_text |-> SqlTrim(Coalesce(row.value.text, <<>>)) # <<>>]

MessagesOf(rows) == [i \in 1..Len(rows) |-> MessageOf(rows[i])]

\* CTE messages: one row per bubbleId row.
MessagesCte(st) == MessagesOf(SelectSeq(st, IsMsgRow))

\* The rows json_tree yields with key 'bubbleId' under $.codeBlockData of
\* one composerData row.
BubbleRowsOf(row) ==
    [j \in 1..Len(row.value.codeBlockData) |->
        [composer_id |-> SubstrAfterPrefix(row.key),
         bubble_id |-> row.value.codeBlockData[j].bubbleId]]

BubbleRowsOfAll(rows) == Flatten([i \in 1..Len(rows) |-> BubbleRowsOf(rows[i])])

CodeBlockBubbleRows(st) == BubbleRowsOfAll(SelectSeq(st, IsConvRow))

CodeBlockBubblesNotDistinct(st) == CodeBlockBubbleRows(st)

\* CTE code_block_bubbles: SELECT DISTINCT composer_id, bubble_id.
CodeBlockBubbles(st) == Distinct(CodeBlockBubbleRows(st))

\* The rows of cb that message m joins: ON m.composer_id = cb.composer_id
\* AND m.bubble_id = cb.bubble_id (a NULL bubble_id joins nothing).
JoinedRows(m, cb) ==
    {k \in 1..Len(cb) :
        /\ m.bubble_id.some
        /\ cb[k].composer_id = m.composer_id
        /\ cb[k].bubble_id = m.bubble_id.v}

\* The rows of messages m LEFT JOIN code_block_bubbles cb that pass
\* WHERE m.has_text = 1 OR cb.bubble_id IS NOT NULL, counted for one message:
\* one row per joined cb row, or the single NULL-extended row.
CountedJoinRows(m, cb) ==
    IF JoinedRows(m, cb) # {} THEN Cardinality(JoinedRows(m, cb))
    ELSE IF m.has_text THEN 1 ELSE 0

GroupCount(ms, cb, composer_id) ==
    SeqSum([i \in 1..Len(ms) |->
        IF ms[i].composer_id = composer_id THEN CountedJoinRows(ms[i], cb) ELSE 0])

\* CTE non_empty_counts, as the COUNT(*) of the group of composer_id
\* (0 when the group does not exist).
NonEmptyCount(st, composer_id) ==
    GroupCount(MessagesCte(st), CodeBlockBubbles(st), composer_id)

JoinKeepsAll(include_empty, count) == TRUE

\* JOIN keeps a composerData row only with its group; LEFT JOIN keeps it anyway.
JoinKeeps(include_empty, count) == include_empty \/ count > 0

ListingRow(c, count) == [key |-> c.key, value |-> c.value, msg_count |-> count]

\* The final SELECT: composerData rows in table order, JOIN or LEFT JOIN
\* non_empty_counts.
RECURSIVE ListingQuery(_, _, _)
ListingQuery(st, rows, include_empty) ==
    IF rows = <<>> THEN <<>>
    ELSE (IF JoinKeeps(include_empty, NonEmptyCount(st, SubstrAfterPrefix(Head(rows).key)))
          THEN <<ListingRow(Head(rows), NonEmptyCount(st, SubstrAfterPrefix(Head(rows).key)))>>
          ELSE <<>>)
         \o ListingQuery(st, Tail(rows), include_empty)

(***************************************************************************)
(* CursorDatabase.list_conversations: the records, the filter, the sort    *)
(***************************************************************************)
PreviewLen == 100
MsPerMinute == 60000

NoTitle == <<"(", "n", "o", " ", "t", "i", "t", "l", "e", ")">>

\* datetime.fromtimestamp(created_at / 1000), in minutes of the model's epoch.
FromTimestampMs(ms) == ms \div MsPerMinute

Slice(s, n) == SubSeq(s, 1, IF Len(s) < n THEN Len(s) ELSE n)

ConversationRecord(row) ==
    [id |-> SplitSecond(row.key),
     title |-> Coalesce(row.value.name, NoTitle),
     subtitle |-> Coalesce(row.value.subtitle, <<>>),
     created |-> IF row.value.createdAt # 0
                 THEN CreatedAt(FromTimestampMs(row.value.createdAt))
                 ELSE NoCreated,
     message_count |-> row.msg_count,
     preview |-> Slice(Coalesce(row.value.text, <<>>), PreviewLen)]

ConversationRecords(rows) == [i \in 1..Len(rows) |-> ConversationRecord(rows[i])]

\* key=lambda x: x['created'] if x['created'] else datetime.min, compared:
\* datetime.min is below every datetime a timestamp yields.
SortKeyLess(x, y) ==
    \/ x.created.kind = "None" /\ y.created.kind # "None"
    \/ x.created.kind # "None" /\ y.created.kind # "None" /\ x.created.v < y.created.v

GoesBeforeAscending(x, y) == SortKeyLess(x, y)

\* sorted(..., reverse=True): descending and stable, so an element goes
\* before the first earlier-placed element whose key is below its own.
GoesBefore(x, y) == SortKeyLess(y, x)

RECURSIVE InsertSorted(_, _)
InsertSorted(sorted, x) ==
    IF sorted = <<>> THEN <<x>>
    ELSE IF GoesBefore(x, Head(sorted)) THEN <<x>> \o sorted
    ELSE <<Head(sorted)>> \o InsertSorted(Tail(sorted), x)

RECURSIVE SortedNewestFirst(_)
SortedNewestFirst(xs) ==
    IF xs = <<>> THEN <<>>
    ELSE InsertSorted(SortedNewestFirst(SubSeq(xs, 1, Len(xs) - 1)), xs[Len(xs)])

\* `if since or before: conversations = filter_by_time_range(...)`
TimeFiltered(conversations, since, before, t_now) ==
    IF Truthy(since) \/ Truthy(before)
    THEN filter_by_time_range(conversations, since, before, t_now)
    ELSE Returned(conversations)

SortedOutcome(filtered) ==
    IF filtered.raised # "" THEN filtered
    ELSE Returned(SortedNewestFirst(filtered.value))

(***************************************************************************)
(* Stored values that are not JSON.                                        *)
(***************************************************************************)
\* A stored value that is not valid JSON.
MalformedJson == [malformed |-> TRUE]
IsMalformed(value) == "malformed" \in DOMAIN value

\* json.loads(row[..])
JsonLoads(value) ==
    IF IsMalformed(value) THEN Raised("JSONDecodeError") ELSE Returned(value)

\* data.get(member, default)
JsonGet(data, member, default) == IF member \in DOMAIN data THEN data[member] ELSE default

MalformedConv(st) == \E i \in 1..Len(st) : IsConvRow(st[i]) /\ IsMalformed(st[i].value)
MalformedMsg(st) == \E i \in 1..Len(st) : IsMsgRow(st[i]) /\ IsMalformed(st[i].value)
MalformedDiff(st) == \E i \in 1..Len(st) : IsDiffRow(st[i]) /\ IsMalformed(st[i].value)

\* What a value that is not JSON does to the listing (SQLite 3.40): without
\* composerData rows the statement yields nothing and evaluates no JSON
\* function; without bubbleId rows the counting subquery is empty, so the
\* statement evaluates no JSON function either, and the values reach
\* json.loads only through the result rows of include_empty; otherwise a
\* JSON function of the statement meets the value and the statement fails.
ListingError(st, include_empty) ==
    IF ~\E i \in 1..Len(st) : IsConvRow(st[i]) THEN ""
    ELSE IF ~\E i \in 1..Len(st) : IsMsgRow(st[i])
         THEN (IF include_empty /\ MalformedConv(st) THEN "JSONDecodeError" ELSE "")
    ELSE IF MalformedConv(st) \/ MalformedMsg(st) THEN "OperationalError"
    ELSE ""

list_conversations(st, since, before, include_empty, t_now) ==
    IF ListingError(st, include_empty) # "" THEN Raised(ListingError(st, include_empty))
    ELSE SortedOutcome(
        TimeFiltered(
            ConversationRecords(ListingQuery(st, SelectSeq(st, IsConvRow), include_empty)),
            since, before, t_now))

(***************************************************************************)
(* database.parse_search_query: re.finditer(r'"([^"]+)"|(\S+)', query)     *)
(***************************************************************************)
Quote == "\""

NotSpace(c) == c \notin Whitespace

LaterQuotes(s) == {j \in 2..Len(s) : s[j] = Quote}

\* Position of the quote closing a quoted phrase that opens at s[1], or 0:
\* the next quote, provided at least one character lies between the two.
ClosingQuote(s) ==
    IF LaterQuotes(s) = {} THEN 0
    ELSE IF Least(LaterQuotes(s)) >= 3 THEN Least(LaterQuotes(s)) ELSE 0

RECURSIVE parse_search_query(_)
parse_search_query(query) ==
    IF query = <<>> THEN <<>>
    ELSE IF Head(query) = Quote /\ ClosingQuote(query) > 0
         THEN <<SubSeq(query, 2, ClosingQuote(query) - 1)>>
              \o parse_search_query(SubSeq(query, ClosingQuote(query) + 1, Len(query)))
    ELSE IF NotSpace(Head(query))
         THEN <<SubSeq(query, 1, WordLen(query))>>
              \o parse_search_query(SubSeq(query, WordLen(query) + 1, Len(query)))
    ELSE parse_search_query(Tail(query))

(***************************************************************************)
(* SQLite's LOWER and LIKE ... ESCAPE '\'                                  *)
(***************************************************************************)
Backslash == "\\"
Percent == "%"
Underscore == "_"

\* LOWER(): ASCII letters only.
SqlLower(s) == [i \in 1..Len(s) |-> AsciiLowerChar(s[i])]

\* LIKE compares ASCII letters without regard to case.
LikeCharEq(a, b) == AsciiLowerChar(a) = AsciiLowerChar(b)

\* The offsets of text at which a match of the rest of the pattern may
\* start, having started a match of the pattern consumed so far at one of
\* the offsets in starts: '%' skips any run of characters, '_' one
\* character, the escape character makes the next pattern character literal.
AfterPercent(starts, text) == {j \in 0..Len(text) : \E i \in starts : i <= j}
AfterUnderscore(starts, text) == {i + 1 : i \in {k \in starts : k < Len(text)}}
AfterLiteral(starts, text, c) ==
    {i + 1 : i \in {k \in starts : k < Len(text) /\ LikeCharEq(text[k + 1], c)}}

RECURSIVE LikeReach(_, _, _)
LikeReach(pattern, text, starts) ==
    IF pattern = <<>> THEN starts
    ELSE IF Head(pattern) = Percent
         THEN LikeReach(Tail(pattern), text, AfterPercent(starts, text))
    ELSE IF Head(pattern) = Underscore
         THEN LikeReach(Tail(pattern), text, AfterUnderscore(starts, text))
    ELSE IF Head(pattern) = Backslash
         THEN (IF Len(pattern) >= 2
               THEN LikeReach(SubSeq(pattern, 3, Len(pattern)), text,
                              AfterLiteral(starts, text, pattern[2]))
               ELSE {})
    ELSE LikeReach(Tail(pattern), text, AfterLiteral(starts, text, Head(pattern)))

\* text LIKE pattern ESCAPE '\': the whole text is matched.
LikeMatch(pattern, text) == Len(text) \in LikeReach(pattern, text, {0})

\* LOWER(text) LIKE LOWER(?) ESCAPE '\'
LowerLike(text, like_pattern) == LikeMatch(SqlLower(like_pattern), SqlLower(text))

\* The same on a nullable JSON member: NULL is no match.
FieldLike(field, like_pattern) == field.some /\ LowerLike(field.v, like_pattern)

(***************************************************************************)
(* CursorDatabase._find_ids_for_term and _search_code_diffs_sql            *)
(***************************************************************************)
EscapeNothing(term) == term

\* term.replace('\\', '\\\\').replace('%', '\\%').replace('_', '\\_')
EscapeTerm(term) ==
    str_replace(
        str_replace(
            str_replace(term, <<Backslash>>, <<Backslash, Backslash>>),
            <<Percent>>, <<Backslash, Percent>>),
        <<Underscore>>, <<Backslash, Underscore>>)

LikePattern(term) == <<Percent>> \o EscapeTerm(term) \o <<Percent>>

OriginalTextMember == <<"\"", "o", "r", "i", "g", "i", "n", "a", "l", "T", "e", "x", "t", "\"", ":">>
ModifiedTextMember == <<"\"", "m", "o", "d", "i", "f", "i", "e", "d", "T", "e", "x", "t", "\"", ":">>

\* The JSON text stored in a codeBlockDiff row.
RawJson(value) ==
    <<"{">>
    \o (IF value.originalText.some
        THEN OriginalTextMember \o <<Quote>> \o value.originalText.v \o <<Quote>>
        ELSE <<>>)
    \o (IF value.originalText.some /\ value.modifiedText.some THEN <<",">> ELSE <<>>)
    \o (IF value.modifiedText.some
        THEN ModifiedTextMember \o <<Quote>> \o value.modifiedText.v \o <<Quote>>
        ELSE <<>>)
    \o <<"}">>

\* json_each over $.codeBlockData: some file path matches.
PathMatch(value, like_pattern) ==
    \E j \in 1..Len(value.codeBlockData) :
        LowerLike(value.codeBlockData[j].file, like_pattern)

\* originalText, modifiedText, or the whole stored value.
DiffMatch(value, like_pattern) ==
    \/ FieldLike(value.originalText, like_pattern)
    \/ FieldLike(value.modifiedText, like_pattern)
    \/ LowerLike(RawJson(value), like_pattern)

search_code_diffs_sql(st, like_pattern) ==
    {SubstrAfterPrefix(st[i].key) : i \in
        {k \in 1..Len(st) : IsConvRow(st[k]) /\ PathMatch(st[k].value, like_pattern)}}
    \cup
    {SubstrToColon(st[i].key) : i \in
        {k \in 1..Len(st) : IsDiffRow(st[k]) /\ DiffMatch(st[k].value, like_pattern)}}

MetadataMatchNameOnly(value, like_pattern) == FieldLike(value.name, like_pattern)

\* The WHERE clause of the metadata query: name, subtitle or text.
MetadataMatch(value, like_pattern) ==
    \/ FieldLike(value.name, like_pattern)
    \/ FieldLike(value.subtitle, like_pattern)
    \/ FieldLike(value.text, like_pattern)

FindIdsForPattern(st, like_pattern, search_diffs) ==
    {SubstrAfterPrefix(st[i].key) : i \in
        {k \in 1..Len(st) : IsConvRow(st[k]) /\ MetadataMatch(st[k].value, like_pattern)}}
    \cup
    {SubstrToColon(st[i].key) : i \in
        {k \in 1..Len(st) : IsMsgRow(st[k]) /\ FieldLike(st[k].value.text, like_pattern)}}
    \cup
    (IF search_diffs THEN search_code_diffs_sql(st, like_pattern) ELSE {})

find_ids_for_term(st, term, search_diffs) ==
    FindIdsForPattern(st, LikePattern(term), search_diffs)

(***************************************************************************)
(* CursorDatabase.search_conversations                                     *)
(***************************************************************************)
CombineUnion(matching_ids, term_ids) == matching_ids \cup term_ids

\* matching_ids &= term_ids
Combine(matching_ids, term_ids) == matching_ids \cap term_ids

\* matching_ids after one more term; first is TRUE while it is still None.
NextMatching(first, matching_ids, term_ids) ==
    IF first THEN term_ids ELSE Combine(matching_ids, term_ids)

\* The loop over the terms.  It ends early, with no ids, as soon as
\* matching_ids is empty.
RECURSIVE MatchingIds(_, _, _, _, _)
MatchingIds(st, terms, first, matching_ids, search_diffs) ==
    IF terms = <<>> THEN matching_ids
    ELSE IF NextMatching(first, matching_ids,
                         find_ids_for_term(st, Head(terms), search_diffs)) = {}
         THEN {}
    ELSE MatchingIds(st, Tail(terms), FALSE,
                     NextMatching(first, matching_ids,
                                  find_ids_for_term(st, Head(terms), search_diffs)),
                     search_diffs)

\* [conv for conv in all_conversations if conv['id'] in matching_ids]
Materialize(all_conversations, matching_ids) ==
    IF all_conversations.raised # "" THEN all_conversations
    ELSE Returned(SelectSeq(all_conversations.value,
                            LAMBDA conv : conv.id \in matching_ids))

SearchMatchedUnfiltered(st, matching_ids, since, before, include_empty, t_now) ==
    IF matching_ids = {} THEN Returned(<<>>)
    ELSE Materialize(list_conversations(st, NoneStr, NoneStr, include_empty, t_now),
                     matching_ids)

SearchMatched(st, matching_ids, since, before, include_empty, t_now) ==
    IF matching_ids = {} THEN Returned(<<>>)
    ELSE Materialize(list_conversations(st, since, before, include_empty, t_now),
                     matching_ids)

\* Every statement of _find_ids_for_term applies a JSON function to each
\* row it scans, so a value that is not JSON fails the first term's search.
SearchJsonError(st, search_diffs) ==
    MalformedConv(st) \/ MalformedMsg(st) \/ (search_diffs /\ MalformedDiff(st))

SearchTermsListsAll(st, terms, since, before, include_empty, search_diffs, t_now) ==
    IF terms = <<>> THEN list_conversations(st, since, before, include_empty, t_now)
    ELSE IF SearchJsonError(st, search_diffs) THEN Raised("OperationalError")
    ELSE SearchMatched(st, MatchingIds(st, terms, TRUE, {}, search_diffs),
                       since, before, include_empty, t_now)

SearchTerms(st, terms, since, before, include_empty, search_diffs, t_now) ==
    IF terms = <<>> THEN Returned(<<>>)
    ELSE IF SearchJsonError(st, search_diffs) THEN Raised("OperationalError")
    ELSE SearchMatched(st, MatchingIds(st, terms, TRUE, {}, search_diffs),
                       since, before, include_empty, t_now)

search_conversations(st, query, since, before, include_empty, search_diffs, t_now) ==
    SearchTerms(st, parse_search_query(query), since, before,
                include_empty, search_diffs, t_now)

(***************************************************************************)
(* Keys as text, and the WHERE clauses that get_conversation, get_messages *)
(* and get_code_block_diff build by pasting their arguments into the       *)
(* statement text.                                                         *)
(***************************************************************************)
ComposerDataPrefix == <<"c", "o", "m", "p", "o", "s", "e", "r", "D", "a", "t", "a", ":">>
BubbleIdPrefix == <<"b", "u", "b", "b", "l", "e", "I", "d", ":">>
CodeBlockDiffPrefix == <<"c", "o", "d", "e", "B", "l", "o", "c", "k", "D", "i", "f", "f", ":">>

\* The key column of a row as text.
KeyText(key) ==
    (IF key.prefix = "composerData" THEN ComposerDataPrefix
     ELSE IF key.prefix = "bubbleId" THEN BubbleIdPrefix
     ELSE CodeBlockDiffPrefix) \o key.rest

\* The statement text is  ... WHERE key <op> "<inner>"  with the arguments
\* pasted into inner.  A double quote in inner ends the string there and the
\* rest is read as SQL.  Two shapes of inner are modelled:
\*   without a quote:       key <op> "inner"
\*   L" OR "A"="B  :        key <op> "L" OR "A"="B"
\* (A and B name no column, so SQLite reads them as strings); every other
\* text with a quote is taken to be a syntax error.
FirstQuote(s) ==
    IF \E i \in 1..Len(s) : s[i] = Quote
    THEN Least({i \in 1..Len(s) : s[i] = Quote})
    ELSE 0

OrInjection == <<Quote, " ", "O", "R", " ", Quote>>
EqInjection == <<Quote, "=", Quote>>

From(s, p) == SubSeq(s, p, Len(s))
AfterOr(s) == From(s, FirstQuote(s) + Len(OrInjection))
AfterEq(s) == From(AfterOr(s), FirstQuote(AfterOr(s)) + Len(EqInjection))

IsOrShape(s) ==
    /\ StartsWith(From(s, FirstQuote(s)), OrInjection)
    /\ FirstQuote(AfterOr(s)) > 0
    /\ StartsWith(From(AfterOr(s), FirstQuote(AfterOr(s))), EqInjection)
    /\ FirstQuote(AfterEq(s)) = 0

WhereSyntaxError(inner) == FirstQuote(inner) > 0 /\ ~IsOrShape(inner)

\* The string the key is compared with.
WhereLiteral(inner) ==
    IF FirstQuote(inner) = 0 THEN inner ELSE SubSeq(inner, 1, FirstQuote(inner) - 1)

\* The value of the pasted alternative  "A"="B"  (FALSE when there is none).
WhereAlternative(inner) ==
    /\ FirstQuote(inner) > 0
    /\ IsOrShape(inner)
    /\ SubSeq(AfterOr(inner), 1, FirstQuote(AfterOr(inner)) - 1) = AfterEq(inner)

\* Rows selected by  key = "<inner>"  (binary comparison).
EqRows(st, inner) ==
    {i \in 1..Len(st) : KeyText(st[i].key) = WhereLiteral(inner) \/ WhereAlternative(inner)}

\* LIKE without ESCAPE: '%' and '_' are wildcards, nothing escapes them.
RECURSIVE LikeReachPlain(_, _, _)
LikeReachPlain(pattern, text, starts) ==
    IF pattern = <<>> THEN starts
    ELSE IF Head(pattern) = Percent
         THEN LikeReachPlain(Tail(pattern), text, AfterPercent(starts, text))
    ELSE IF Head(pattern) = Underscore
         THEN LikeReachPlain(Tail(pattern), text, AfterUnderscore(starts, text))
    ELSE LikeReachPlain(Tail(pattern), text, AfterLiteral(starts, text, Head(pattern)))

LikeMatchPlain(pattern, text) == Len(text) \in LikeReachPlain(pattern, text, {0})

\* Row selected by  key LIKE "<inner>".
LikeRow(row, inner) ==
    LikeMatchPlain(WhereLiteral(inner), KeyText(row.key)) \/ WhereAlternative(inner)

(***************************************************************************)
(* CursorDatabase.__init__ and _connect.  The object keeps the path of the *)
(* database file and nothing else; a connection is opened on the file as   *)
(* it is when the operation runs.                                          *)
(***************************************************************************)
DbPath == "state.vscdb"

\* self.db_path = db_path or get_cursor_db_path()
CursorDatabase(db_path) == [db_path |-> db_path]

\* A connection that still shows the table as it was before the last write.
ConnectSeesOlderContent(slf, st) ==
    IF st = <<>> THEN st ELSE SubSeq(st, 1, Len(st) - 1)

\* sqlite3.connect(f'file:{self.db_path}?mode=ro', uri=True): the rows a
\* statement executed through the connection reads.
_connect(slf, st) == st

\* The connections an operation leaves open when it ends.  Each operation
\* closes its connection on its way to a return and before raising
\* ValueError; get_code_block_diff also closes before json.loads.  A failing
\* execute (OperationalError) and, in the other operations, a failing
\* json.loads (JSONDecodeError) leave the function before conn.close().
OpenAfter(op, raised) ==
    IF raised = "OperationalError" THEN 1
    ELSE IF raised = "JSONDecodeError" /\ op # "get_code_block_diff" THEN 1
    ELSE 0

(***************************************************************************)
(* mode=ro: what the statements of an operation, executed through a        *)
(* read-only connection, leave in the table.                               *)
(***************************************************************************)
StoreLosesRows(st, op) == IF op = "get_messages" THEN <<>> ELSE st

\* Every statement is a SELECT, and the connection is read-only.
StoreAfter(st, op) == st

(***************************************************************************)
(* CursorDatabase.get_conversation and get_code_block_diff                 *)
(***************************************************************************)
\* fetchone(): the first selected row in table order.
ConversationFetched(st, rows) ==
    IF rows = {} THEN Raised("ValueError") ELSE JsonLoads(st[Least(rows)].value)

get_conversation(st, composer_id) ==
    IF WhereSyntaxError(ComposerDataPrefix \o composer_id) THEN Raised("OperationalError")
    ELSE ConversationFetched(st, EqRows(st, ComposerDataPrefix \o composer_id))

\* Python's None as a returned value.
NoneValue == [is_none |-> TRUE]

DiffFetched(st, rows) ==
    IF rows = {} THEN Returned(NoneValue) ELSE JsonLoads(st[Least(rows)].value)

get_code_block_diff(st, composer_id, diff_id) ==
    IF WhereSyntaxError(CodeBlockDiffPrefix \o composer_id \o <<Colon>> \o diff_id)
    THEN Raised("OperationalError")
    ELSE DiffFetched(st, EqRows(st, CodeBlockDiffPrefix \o composer_id \o <<Colon>> \o diff_id))

(***************************************************************************)
(* CursorDatabase.get_messages                                             *)
(*                                                                         *)
(* bubbleId value: [bubbleId, text, createdAt, type, modelName]; createdAt *)
(* is an ISO timestamp text, type a number, modelName the member           *)
(* $.modelInfo.modelName.  The members get_messages copies unchanged into  *)
(* the message (richText, thinking, toolFormerData, ...) are left out.     *)
(***************************************************************************)
MessageRecord(data) ==
    [id |-> JsonGet(data, "bubbleId", NoneStr),
     type |-> IF JsonGet(data, "type", NoneInt) = SomeInt(1) THEN "user" ELSE "assistant",
     created |-> JsonGet(data, "createdAt", NoneStr),
     text |-> Coalesce(JsonGet(data, "text", NoneStr), <<>>),
     model |-> JsonGet(data, "modelName", NoneStr)]

\* ord(c), for the characters of the timestamps drawn.
CodePoint(c) ==
    IF IsDigit(c) THEN 48 + DigitVal(c)
    ELSE IF c = "-" THEN 45
    ELSE IF c = ":" THEN 58
    ELSE 84

ShorterLen(a, b) == IF Len(a) < Len(b) THEN Len(a) ELSE Len(b)

CommonPrefixLen(a, b) ==
    CHOOSE k \in 0..ShorterLen(a, b) :
        /\ \A i \in 1..k : a[i] = b[i]
        /\ (k = ShorterLen(a, b) \/ a[k + 1] # b[k + 1])

\* a < b on str: lexicographic by code point.
PyStrLess(a, b) ==
    IF CommonPrefixLen(a, b) = ShorterLen(a, b) THEN Len(a) < Len(b)
    ELSE CodePoint(a[CommonPrefixLen(a, b) + 1]) < CodePoint(b[CommonPrefixLen(a, b) + 1])

\* key=lambda x: x['created'] if x['created'] else ''
MessageSortKey(message) == IF Truthy(message.created) THEN message.created.v ELSE <<>>

MessageGoesBeforeOrEqual(x, y) == ~PyStrLess(MessageSortKey(y), MessageSortKey(x))

\* sorted(): ascending and stable, so an element goes before the first
\* earlier-placed element whose key is above its own.
MessageGoesBefore(x, y) == PyStrLess(MessageSortKey(x), MessageSortKey(y))

RECURSIVE InsertMessage(_, _)
InsertMessage(sorted, x) ==
    IF sorted = <<>> THEN <<x>>
    ELSE IF MessageGoesBefore(x, Head(sorted)) THEN <<x>> \o sorted
    ELSE <<Head(sorted)>> \o InsertMessage(Tail(sorted), x)

RECURSIVE SortedByCreated(_)
SortedByCreated(xs) ==
    IF xs = <<>> THEN <<>>
    ELSE InsertMessage(SortedByCreated(SubSeq(xs, 1, Len(xs) - 1)), xs[Len(xs)])

\* The loop over cursor.fetchall(), then the sort.
MessagesOfRows(rows) ==
    IF \E i \in 1..Len(rows) : IsMalformed(rows[i].value) THEN Raised("JSONDecodeError")
    ELSE Returned(SortedByCreated([i \in 1..Len(rows) |-> MessageRecord(rows[i].value)]))

get_messages(st, composer_id) ==
    IF WhereSyntaxError(BubbleIdPrefix \o composer_id \o <<Colon, Percent>>)
    THEN Raised("OperationalError")
    ELSE MessagesOfRows(
             SelectSeq(st, LAMBDA row :
                 LikeRow(row, BubbleIdPrefix \o composer_id \o <<Colon, Percent>>)))

(***************************************************************************)
(* CursorDatabase.find_by_title                                            *)
(***************************************************************************)
\* sub in text
PyContains(text, sub) ==
    \E p \in 0..(Len(text) - Len(sub)) : SubSeq(text, p + 1, p + Len(sub)) = sub

TitleMatches(conv, query_lower) ==
    \/ PyContains(str_lower(conv.title), query_lower)
    \/ PyContains(str_lower(conv.subtitle), query_lower)

TitleFiltered(all_conversations, query_lower) ==
    IF all_conversations.raised # "" THEN all_conversations
    ELSE Returned(SelectSeq(all_conversations.value,
                            LAMBDA conv : TitleMatches(conv, query_lower)))

find_by_title(st, title_query, include_empty, t_now) ==
    TitleFiltered(list_conversations(st, NoneStr, NoneStr, include_empty, t_now),
                  str_lower(title_query))

(***************************************************************************)
(* MarkdownFormatter.format_conversation and                               *)
(* RichFormatter.format_conversation: the effective model of each message. *)
(* Each formatter has its own copy of the loop.                            *)
(***************************************************************************)
DefaultModel == <<"d", "e", "f", "a", "u", "l", "t">>

MarkdownModelAfterAnyOverride(current_model, msg) ==
    IF Truthy(msg.model) THEN msg.model ELSE current_model

\* if msg_model and msg_model != 'default': current_model = msg_model
MarkdownModelAfter(current_model, msg) ==
    IF Truthy(msg.model) /\ msg.model.v # DefaultModel THEN msg.model ELSE current_model

RECURSIVE MarkdownModelsLoop(_, _)
MarkdownModelsLoop(messages, current_model) ==
    IF messages = <<>> THEN <<>>
    ELSE <<MarkdownModelAfter(current_model, Head(messages))>>
         \o MarkdownModelsLoop(Tail(messages),
                               MarkdownModelAfter(current_model, Head(messages)))

MarkdownEffectiveModels(messages) == MarkdownModelsLoop(messages, NoneStr)

RichModelAfter(current_model, msg) ==
    IF Truthy(msg.model) /\ msg.model.v # DefaultModel THEN msg.model ELSE current_model

RECURSIVE RichModelsLoop(_, _)
RichModelsLoop(messages, current_model) ==
    IF messages = <<>> THEN <<>>
    ELSE <<RichModelAfter(current_model, Head(messages))>>
         \o RichModelsLoop(Tail(messages), RichModelAfter(current_model, Head(messages)))

RichEffectiveModels(messages) == RichModelsLoop(messages, NoneStr)

(***************************************************************************)
(* The visible-message count of format_conversation (both formatters) and  *)
(* utils.get_code_blocks_for_message.  code_block_data is the sequence of  *)
(* the blocks of $.codeBlockData, each with its file and its bubbleId.      *)
(* The members thinking and tool_call that RichFormatter also looks at are *)
(* absent from the messages of the model.                                  *)
(***************************************************************************)
BlockBelongs(block, bubble_id) == SomeStr(block.bubbleId) = bubble_id

\* if block_data.get('bubbleId') == bubble_id: result.append(...)
RECURSIVE get_code_blocks_for_message(_, _)
get_code_blocks_for_message(bubble_id, code_block_data) ==
    IF code_block_data = <<>> THEN <<>>
    ELSE (IF BlockBelongs(Head(code_block_data), bubble_id)
          THEN <<Head(code_block_data)>> ELSE <<>>)
         \o get_code_blocks_for_message(bubble_id, Tail(code_block_data))

\* has_content = (msg.get('text') or '').strip()
HasContent(msg) == str_strip(msg.text) # <<>>

HasCodeBlocks(msg, code_block_data) ==
    get_code_blocks_for_message(msg.id, code_block_data) # <<>>

IsVisible(msg, code_block_data) == HasContent(msg) \/ HasCodeBlocks(msg, code_block_data)

VisibleCount(messages, code_block_data, show_empty) ==
    IF show_empty THEN Len(messages)
    ELSE SeqSum([i \in 1..Len(messages) |->
                    IF IsVisible(messages[i], code_block_data) THEN 1 ELSE 0])

\* What the document shows of the conversation: the Messages header and the
\* effective model of each message.
MarkdownFormat(conversation, messages, show_empty) ==
    [visible_count |-> VisibleCount(messages, JsonGet(conversation, "codeBlockData", <<>>),
                                    show_empty),
     effective_models |-> MarkdownEffectiveModels(messages)]

RichFormat(conversation, messages, show_empty) ==
    [visible_count |-> VisibleCount(messages, JsonGet(conversation, "codeBlockData", <<>>),
                                    show_empty),
     effective_models |-> RichEffectiveModels(messages)]

(***************************************************************************)
(* ConversationStats (stats.py).  A conversation of the collection is a    *)
(* record with the members id, message_count and created; the instants of  *)
(* the statistics are counted in steps of 1/SubSecondSteps second since    *)
(* Monday 2024-01-01 00:00 local time.  Numbers that can be halves         *)
(* (median, and p25 and p75, which fall back to it) are held doubled.      *)
(***************************************************************************)
SubSecondSteps == 2

SecondTicks == SubSecondSteps
DayTicks == 24 * 60 * 60 * SecondTicks

\* StatResult(label=label): every other field at its default.
EmptyStatResult(label) ==
    [count |-> 0, total |-> 0, mean |-> [num |-> 0, den |-> 1], median |-> 0,
     variance |-> [num |-> 0, den |-> 1], min |-> 0, max |-> 0,
     p25 |-> 0, p75 |-> 0, p90 |-> 0, distribution |-> <<>>, label |-> label,
     start_date |-> NoneInt, end_date |-> NoneInt]

\* DEFAULT_BUCKETS; the last bucket has no upper end.
DEFAULT_BUCKETS ==
    <<[name |-> "1-5", low |-> 1, high |-> 5, open |-> FALSE],
      [name |-> "6-15", low |-> 6, high |-> 15, open |-> FALSE],
      [name |-> "16-30", low |-> 16, high |-> 30, open |-> FALSE],
      [name |-> "31-50", low |-> 31, high |-> 50, open |-> FALSE],
      [name |-> "51-100", low |-> 51, high |-> 100, open |-> FALSE],
      [name |-> "100+", low |-> 101, high |-> 101, open |-> TRUE]>>

InBucket(v, bucket) == bucket.low <= v /\ (bucket.open \/ v <= bucket.high)

\* The last bucket that holds the value instead of the first.
BucketOfLastMatch(v, buckets) ==
    IF \E b \in 1..Len(buckets) : InBucket(v, buckets[b])
    THEN CHOOSE b \in 1..Len(buckets) :
             InBucket(v, buckets[b]) /\ \A c \in (b + 1)..Len(buckets) : ~InBucket(v, buckets[c])
    ELSE 0

\* The bucket a value is counted in: the first one that holds it (0 if none),
\* where the inner loop breaks.
BucketOf(v, buckets) ==
    IF \E b \in 1..Len(buckets) : InBucket(v, buckets[b])
    THEN Least({b \in 1..Len(buckets) : InBucket(v, buckets[b])})
    ELSE 0

\* The dict {name: count}: one key per bucket name.
compute_distribution(values, buckets) ==
    [name \in {buckets[b].name : b \in 1..Len(buckets)} |->
        Cardinality({i \in 1..Len(values) :
                        /\ BucketOf(values[i], buckets) # 0
                        /\ buckets[BucketOf(values[i], buckets)].name = name})]

\* The buckets argument left out (None).
NoBuckets == [some |-> FALSE, v |-> <<>>]

\* buckets or self.DEFAULT_BUCKETS
BucketsUsed(buckets) ==
    IF buckets.some /\ buckets.v # <<>> THEN buckets.v ELSE DEFAULT_BUCKETS

\* sorted(values)
RECURSIVE InsertValue(_, _)
InsertValue(sorted, v) ==
    IF sorted = <<>> THEN <<v>>
    ELSE IF v < Head(sorted) THEN <<v>> \o sorted
    ELSE <<Head(sorted)>> \o InsertValue(Tail(sorted), v)

RECURSIVE SortedValues(_)
SortedValues(values) ==
    IF values = <<>> THEN <<>>
    ELSE InsertValue(SortedValues(SubSeq(values, 1, Len(values) - 1)), values[Len(values)])

\* statistics.median, doubled.
MedianDoubled(sorted_values) ==
    IF Len(sorted_values) % 2 = 1 THEN 2 * sorted_values[(Len(sorted_values) + 1) \div 2]
    ELSE sorted_values[Len(sorted_values) \div 2] + sorted_values[Len(sorted_values) \div 2 + 1]

\* statistics.stdev squared: (n * sum(x^2) - sum(x)^2) / (n * (n - 1)).
SampleVariance(values) ==
    IF Len(values) > 1
    THEN [num |-> Len(values) * SeqSum([i \in 1..Len(values) |-> values[i] * values[i]])
                  - SeqSum(values) * SeqSum(values),
          den |-> Len(values) * (Len(values) - 1)]
    ELSE [num |-> 0, den |-> 1]

\* sorted_values[int(n * 0.25)], [int(n * 0.75)], [int(n * 0.90)]: the
\* products are exact or round to the same integer part for n < 2000.
P25DoubledAboveFour(sorted_values, n) ==
    IF n > 4 THEN 2 * sorted_values[(n \div 4) + 1] ELSE MedianDoubled(sorted_values)

P25Doubled(sorted_values, n) ==
    IF n >= 4 THEN 2 * sorted_values[(n \div 4) + 1] ELSE MedianDoubled(sorted_values)

P75Doubled(sorted_values, n) ==
    IF n >= 4 THEN 2 * sorted_values[((3 * n) \div 4) + 1] ELSE MedianDoubled(sorted_values)

P90FallsBackToMedian(sorted_values, n) ==
    IF n >= 10 THEN sorted_values[((9 * n) \div 10) + 1]
    ELSE sorted_values[(n + 1) \div 2]

P90(sorted_values, n) ==
    IF n >= 10 THEN sorted_values[((9 * n) \div 10) + 1] ELSE sorted_values[n]

MetricValues(conversations, metric) ==
    [i \in 1..Len(conversations) |-> JsonGet(conversations[i], metric, 0)]

\* dates = [c['created'] for c in self.conversations if c.get('created')]
CreatedDates(conversations) ==
    {conversations[i].created.v : i \in {j \in 1..Len(conversations) :
                                            JsonGet(conversations[j], "created", NoneInt).some}}

EarliestDate(dates) ==
    IF dates = {} THEN NoneInt ELSE SomeInt(CHOOSE d \in dates : \A e \in dates : d <= e)

LatestDate(dates) ==
    IF dates = {} THEN NoneInt ELSE SomeInt(CHOOSE d \in dates : \A e \in dates : e <= d)

ComputeValues(values, sorted_values, dates, label, buckets) ==
    [count |-> Len(values),
     total |-> SeqSum(values),
     mean |-> [num |-> SeqSum(values), den |-> Len(values)],
     median |-> MedianDoubled(sorted_values),
     variance |-> SampleVariance(values),
     min |-> sorted_values[1],
     max |-> sorted_values[Len(values)],
     p25 |-> P25Doubled(sorted_values, Len(values)),
     p75 |-> P75Doubled(sorted_values, Len(values)),
     p90 |-> P90(sorted_values, Len(values)),
     distribution |-> compute_distribution(values, buckets),
     label |-> label,
     start_date |-> EarliestDate(dates),
     end_date |-> LatestDate(dates)]

compute(conversations, metric, label, buckets) ==
    IF conversations = <<>> THEN EmptyStatResult(label)
    ELSE ComputeValues(MetricValues(conversations, metric),
                       SortedValues(MetricValues(conversations, metric)),
                       CreatedDates(conversations), label, BucketsUsed(buckets))

(***************************************************************************)
(* ConversationStats._get_period_bounds and by_period                      *)
(***************************************************************************)
\* reference.replace(hour=0, minute=0, second=0, microsecond=0)
StatsMidnight(t) == t - (t % DayTicks)

\* reference.weekday(): Monday is 0.
StatsWeekday(t) == (t \div DayTicks) % 7

\* timedelta(hours=23, minutes=59, seconds=59)
LastSecondOfDay == (23 * 60 * 60 + 59 * 60 + 59) * SecondTicks

PeriodStart(reference, period, offset) ==
    IF period = "week"
    THEN StatsMidnight(reference) - StatsWeekday(reference) * DayTicks - offset * 7 * DayTicks
    ELSE StatsMidnight(reference) - offset * DayTicks

PeriodEnd(reference, period, offset) ==
    IF period = "week"
    THEN PeriodStart(reference, period, offset) + 6 * DayTicks + LastSecondOfDay
    ELSE PeriodStart(reference, period, offset) + LastSecondOfDay

\* The label without its dates.
PeriodLabel(period, offset) ==
    IF period = "week"
    THEN (IF offset = 0 THEN "Current week" ELSE IF offset = 1 THEN "Last week"
          ELSE "weeks ago")
    ELSE (IF offset = 0 THEN "Today" ELSE IF offset = 1 THEN "Yesterday" ELSE "weekday")

get_period_bounds(reference, period, offset) ==
    IF period \in {"week", "day"}
    THEN Returned([start |-> PeriodStart(reference, period, offset),
                   end |-> PeriodEnd(reference, period, offset),
                   label |-> PeriodLabel(period, offset)])
    ELSE Raised("ValueError")

\* c.get('created') and start <= c['created'] <= end
InPeriod(c, start, end) ==
    /\ JsonGet(c, "created", NoneInt).some
    /\ start <= c.created.v
    /\ c.created.v <= end

PeriodStats(conversations, metric, bounds) ==
    [compute(SelectSeq(conversations, LAMBDA c : InPeriod(c, bounds.start, bounds.end)),
             metric, bounds.label, NoBuckets)
        EXCEPT !.start_date = SomeInt(bounds.start), !.end_date = SomeInt(bounds.end)]

\* for i in range(num_periods)
RECURSIVE ByPeriodLoop(_, _, _, _, _, _, _)
ByPeriodLoop(conversations, period, metric, num_periods, ref, i, results) ==
    IF i >= num_periods THEN Returned(results)
    ELSE IF get_period_bounds(ref, period, i).raised # ""
         THEN get_period_bounds(ref, period, i)
    ELSE ByPeriodLoop(conversations, period, metric, num_periods, ref, i + 1,
             Append(results,
                    PeriodStats(conversations, metric, get_period_bounds(ref, period, i).value)))

\* ref = reference_date or datetime.now(); the clock counts minutes.
ReferenceOf(reference_date, t_now) ==
    IF reference_date.some THEN reference_date.v ELSE t_now * 60 * SecondTicks

by_period(conversations, period, metric, num_periods, reference_date, t_now) ==
    ByPeriodLoop(conversations, period, metric, num_periods,
                 ReferenceOf(reference_date, t_now), 0, <<>>)

(***************************************************************************)
(* ConversationStats.top_conversations                                     *)
(***************************************************************************)
\* reversed(sorted(...)) instead of sorted(..., reverse=True): ties reversed.
TopGoesBeforeTiesReversed(x, y, metric, descending) ==
    IF descending THEN JsonGet(x, metric, 0) >= JsonGet(y, metric, 0)
    ELSE JsonGet(x, metric, 0) < JsonGet(y, metric, 0)

\* sorted(..., reverse=descending) is stable in both directions: an element
\* goes before the first earlier-placed element that is strictly worse.
TopGoesBefore(x, y, metric, descending) ==
    IF descending THEN JsonGet(x, metric, 0) > JsonGet(y, metric, 0)
    ELSE JsonGet(x, metric, 0) < JsonGet(y, metric, 0)

RECURSIVE InsertByMetric(_, _, _, _)
InsertByMetric(sorted, x, metric, descending) ==
    IF sorted = <<>> THEN <<x>>
    ELSE IF TopGoesBefore(x, Head(sorted), metric, descending) THEN <<x>> \o sorted
    ELSE <<Head(sorted)>> \o InsertByMetric(Tail(sorted), x, metric, descending)

RECURSIVE SortedByMetric(_, _, _)
SortedByMetric(conversations, metric, descending) ==
    IF conversations = <<>> THEN <<>>
    ELSE InsertByMetric(
             SortedByMetric(SubSeq(conversations, 1, Len(conversations) - 1),
                            metric, descending),
             conversations[Len(conversations)], metric, descending)

\* sorted_convs[:n] for n >= 0
FirstN(xs, n) == SubSeq(xs, 1, IF n < Len(xs) THEN n ELSE Len(xs))

\* sorted() builds a new list: self.conversations stays as it was.
ConversationsAfterTop(conversations, metric, descending) == conversations

top_conversations(conversations, metric, n, descending) ==
    [returned |-> FirstN(SortedByMetric(conversations, metric, descending), n),
     conversations |-> ConversationsAfterTop(conversations, metric, descending)]

(***************************************************************************)
(* The time utilities as a state machine: each call reads the clock, which *)
(* advances between calls.                                                 *)
(***************************************************************************)
MaxAmount == 12
MaxItems == 3
MaxTicks == 1

NowStart == 3 * MinutesPerDay

Separators == {<<>>, <<" ">>}
Suffixes == {<<>>, AgoSuffix}

RelativeText(n, sep, i, suf) == ToDigits(n) \o sep \o UnitAlternation[i] \o suf

RelativeTexts ==
    {RelativeText(n, sep, i, suf) :
        n \in 0..MaxAmount, sep \in Separators,
        i \in 1..Len(UnitAlternation), suf \in Suffixes}

Garbage == <<"g", "a", "r", "b", "a", "g", "e">>
Jan02 == <<"2", "0", "2", "4", "-", "0", "1", "-", "0", "2">>
OneDay == <<"1", "d">>

OtherTexts ==
    {<<>>, Garbage, Jan02, <<"3">>, <<"d">>, <<" ", "3", "D", " ">>,
     <<"2", " ", "H", "o", "u", "r", "s", " ", "A", "g", "o">>,
     <<"3", "d", "x", "y">>, <<"3", "\t", "d">>}

TimeArgs == {NoneStr, SomeStr(<<>>), SomeStr(Garbage), SomeStr(OneDay), SomeStr(Jan02)}

ItemCreated ==
    {NoCreated, CreatedText}
    \cup {CreatedAt(t) : t \in {MinutesPerDay - 1, MinutesPerDay, NowStart - MinutesPerDay}}

ItemLists ==
    UNION {{[i \in 1..n |-> [id |-> i, created |-> cs[i]]] : cs \in [1..n -> ItemCreated]} :
           n \in 0..MaxItems}

InitTime ==
    /\ store = <<>>
    /\ now = NowStart
    /\ call = NoCall
    /\ result = NoResult
    /\ self = CursorDatabase(DbPath)
    /\ connections = 0

\* The caller takes the result; the next call starts from there.  When the
\* call has raised, the frame that holds its connection is released with the
\* exception, and the connection is closed as it is deallocated.
Return ==
    /\ call # NoCall
    /\ call' = NoCall
    /\ result' = NoResult
    /\ connections' = 0
    /\ UNCHANGED <<store, now, self>>

Tick ==
    /\ call = NoCall
    /\ now < NowStart + MaxTicks
    /\ now' = now + 1
    /\ UNCHANGED <<store, call, result, self, connections>>

CallParseRelativeTime ==
    \E text \in RelativeTexts \cup OtherTexts :
        /\ call = NoCall
        /\ call' = [op |-> "parse_relative_time", text |-> text, at |-> now]
        /\ result' = Returned(parse_relative_time(text, now))
        /\ UNCHANGED <<store, now, self, connections>>

CallParseDatetime ==
    \E text \in OtherTexts :
        /\ call = NoCall
        /\ call' = [op |-> "parse_datetime", text |-> text, at |-> now]
        /\ result' = Returned(parse_datetime(text, now))
        /\ UNCHANGED <<store, now, self, connections>>

CallFilterByTimeRange ==
    \E items \in ItemLists, since \in TimeArgs, before \in TimeArgs :
        /\ call = NoCall
        /\ call' = [op |-> "filter_by_time_range", items |-> items,
                    since |-> since, before |-> before, at |-> now]
        /\ result' = filter_by_time_range(items, since, before, now)
        /\ UNCHANGED <<store, now, self, connections>>

NextTime ==
    \/ Tick
    \/ Return
    \/ CallParseRelativeTime
    \/ CallParseDatetime
    \/ CallFilterByTimeRange

SpecTime == InitTime /\ [][NextTime]_vars

(***************************************************************************)
(* The repository as a state machine.  Another process (Cursor) writes the *)
(* store; the reader makes one call at a time and takes its result.        *)
(***************************************************************************)
MaxRows == 3

ConvId(i) == <<"c">> \o ToDigits(i)
BubbleId(j) == <<"m">> \o ToDigits(j)
DiffId(k) == <<"d">> \o ToDigits(k)

ConvKey(cid) == [prefix |-> "composerData", rest |-> cid]
MsgKey(cid, mid) == [prefix |-> "bubbleId", rest |-> cid \o <<Colon>> \o mid]
DiffKey(cid, did) == [prefix |-> "codeBlockDiff", rest |-> cid \o <<Colon>> \o did]

ConvRow(cid, name, subtitle, text, createdAt, codeBlockData) ==
    [key |-> ConvKey(cid),
     value |-> [name |-> name, subtitle |-> subtitle, text |-> text,
                createdAt |-> createdAt, codeBlockData |-> codeBlockData]]

MsgRow(cid, mid, text) ==
    [key |-> MsgKey(cid, mid),
     value |-> [bubbleId |-> SomeStr(mid), text |-> text]]

DiffRow(cid, did, originalText, modifiedText) ==
    [key |-> DiffKey(cid, did),
     value |-> [originalText |-> originalText, modifiedText |-> modifiedText]]

CodeEdit(file, mid) == [file |-> file, bubbleId |-> mid]

HasKey(st, key) == \E i \in 1..Len(st) : st[i].key = key

\* The order in which the writer inserts rows: conversations in any order,
\* then messages, then diffs, the latter two in the order of their ids (the
\* operations modelled here do not depend on the order of those rows).
RowRank(r) ==
    (IF IsConvRow(r) THEN 0 ELSE IF IsMsgRow(r) THEN 100 ELSE 200)
    + ParseInt(SelectSeq(r.key.rest, IsDigit))

MayInsert(st, r) ==
    /\ Len(st) < MaxRows
    /\ ~HasKey(st, r.key)
    /\ \A i \in 1..Len(st) :
          IF IsConvRow(r) THEN IsConvRow(st[i]) ELSE RowRank(st[i]) < RowRank(r)

Put(rows) ==
    \E r \in rows :
        /\ call = NoCall
        /\ MayInsert(store, r)
        /\ store' = Append(store, r)
        /\ UNCHANGED <<now, call, result, self, connections>>

\* One call of an operation of the object, from conn = self._connect() to its
\* return or its exception.
RepositoryCall(c, outcome) ==
    /\ call = NoCall
    /\ call' = c
    /\ result' = outcome
    /\ connections' = connections + OpenAfter(c.op, outcome.raised)
    /\ store' = StoreAfter(store, c.op)
    /\ UNCHANGED <<now, self>>

CallListConversations(sinces, befores) ==
    \E since \in sinces, before \in befores, include_empty \in BOOLEAN :
        RepositoryCall([op |-> "list_conversations", since |-> since, before |-> before,
                        include_empty |-> include_empty, at |-> now],
                       list_conversations(_connect(self, store), since, before, include_empty, now))

CallSearchConversations(queries, sinces, befores, diffs) ==
    \E query \in queries, since \in sinces, before \in befores,
       include_empty \in BOOLEAN, search_diffs \in diffs :
        RepositoryCall([op |-> "search_conversations", query |-> query,
                        since |-> since, before |-> before,
                        include_empty |-> include_empty, search_diffs |-> search_diffs,
                        at |-> now],
                       search_conversations(_connect(self, store), query, since, before,
                        include_empty, search_diffs, now))

InitStore ==
    /\ store = <<>>
    /\ now = NowStart
    /\ call = NoCall
    /\ result = NoResult
    /\ self = CursorDatabase(DbPath)
    /\ connections = 0

(***************************************************************************)
(* Counting: conversations with code edits, messages with various texts.   *)
(***************************************************************************)
FileA == <<"f", "a">>
FileB == <<"f", "b">>

CountTexts == {NoneStr, SomeStr(<<>>), SomeStr(<<" ">>), SomeStr(<<"\t">>), SomeStr(<<" ", "a">>)}

CountEdits ==
    {<<>>, <<CodeEdit(FileA, BubbleId(1))>>,
     <<CodeEdit(FileA, BubbleId(1)), CodeEdit(FileB, BubbleId(1))>>}

CountRows ==
    {ConvRow(ConvId(i), NoneStr, NoneStr, NoneStr, 0, edits) :
        i \in 1..2, edits \in CountEdits}
    \cup {MsgRow(ConvId(i), BubbleId(j), text) : i \in 1..2, j \in 1..2, text \in CountTexts}

WriteCount == Put(CountRows)
ListCount == CallListConversations({NoneStr}, {NoneStr})

NextCount ==
    \/ WriteCount
    \/ ListCount
    \/ Return

SpecCount == InitStore /\ [][NextCount]_vars

(***************************************************************************)
(* Ordering and time windows: conversations created at various instants.   *)
(***************************************************************************)
Jan03 == <<"2", "0", "2", "4", "-", "0", "1", "-", "0", "3">>

OrderCreatedAt == {0, MinutesPerDay * MsPerMinute, 2 * MinutesPerDay * MsPerMinute}

OrderRows ==
    {ConvRow(ConvId(i), NoneStr, NoneStr, NoneStr, createdAt, <<>>) :
        i \in 1..3, createdAt \in OrderCreatedAt}
    \cup {MsgRow(ConvId(i), BubbleId(1), SomeStr(<<"a">>)) : i \in 1..3}
    \cup {DiffRow(ConvId(i), DiffId(1), SomeStr(<<"b">>), NoneStr) : i \in 1..3}

OrderSinces == {NoneStr, SomeStr(Garbage), SomeStr(Jan02)}
OrderBefores == {NoneStr, SomeStr(Garbage), SomeStr(Jan03)}
OrderQueries == {<<"a">>, <<"b">>, <<"a", " ", "b">>}

WriteOrder == Put(OrderRows)
ListOrder == CallListConversations(OrderSinces, OrderBefores)
SearchOrder == CallSearchConversations(OrderQueries, OrderSinces, OrderBefores, BOOLEAN)

NextOrder ==
    \/ WriteOrder
    \/ ListOrder
    \/ SearchOrder
    \/ Return

SpecOrder == InitStore /\ [][NextOrder]_vars

(***************************************************************************)
(* Searching: conversations and messages whose fields hold pattern         *)
(* metacharacters, mixed case, and a text longer than the preview.         *)
(***************************************************************************)
MixedCaseText == <<"a", "X", "b">>
UnderscoreText == <<"a", Underscore, "b">>
PercentText == <<"a", Percent, "b">>
BackslashText == <<"a", Backslash, "b">>
AccentedText == <<"É">>
NeedleText == <<"n">>

\* A text whose only "n" lies just beyond the preview.
LongText == [i \in 1..(PreviewLen + 1) |-> IF i <= PreviewLen THEN "x" ELSE "n"]

SearchConversationValues ==
    {<<NoneStr, NoneStr, NoneStr>>,
     <<SomeStr(MixedCaseText), NoneStr, NoneStr>>,
     <<SomeStr(AccentedText), NoneStr, NoneStr>>,
     <<NoneStr, SomeStr(UnderscoreText), NoneStr>>,
     <<NoneStr, NoneStr, SomeStr(PercentText)>>,
     <<NoneStr, NoneStr, SomeStr(LongText)>>}

SearchMessageTexts == {MixedCaseText, UnderscoreText, BackslashText, NeedleText}

SearchRows ==
    {ConvRow(ConvId(i), v[1], v[2], v[3], 0, <<>>) :
        i \in 1..2, v \in SearchConversationValues}
    \cup {MsgRow(ConvId(i), BubbleId(1), SomeStr(text)) :
            i \in 1..2, text \in SearchMessageTexts}

MixedCaseTerm == <<"A", "x", "B">>
AccentedTerm == <<"é">>

SingleTerms ==
    {MixedCaseTerm, UnderscoreText, PercentText, <<Backslash>>, NeedleText, AccentedTerm}

MetacharTerms == {UnderscoreText, PercentText, <<Backslash>>}

TermLists ==
    {<<MixedCaseTerm, NeedleText>>, <<NeedleText, MixedCaseTerm>>,
     <<UnderscoreText, PercentText>>,
     <<MixedCaseTerm, NeedleText, UnderscoreText>>}

RECURSIVE JoinTerms(_)
JoinTerms(terms) ==
    IF Len(terms) = 1 THEN terms[1]
    ELSE terms[1] \o <<" ">> \o JoinTerms(Tail(terms))

SearchQueries == SingleTerms \cup {JoinTerms(terms) : terms \in TermLists}

WriteSearch == Put(SearchRows)
SearchSearch == CallSearchConversations(SearchQueries, {NoneStr}, {NoneStr}, {FALSE})

NextSearch ==
    \/ WriteSearch
    \/ SearchSearch
    \/ Return

SpecSearch == InitStore /\ [][NextSearch]_vars

(***************************************************************************)
(* Tokenizing: every query text over a letter, the space and the double    *)
(* quote, tokenized alone and, for the short ones, searched for.           *)
(***************************************************************************)
MaxQueryLen == 4

QueryChars == {"a", " ", Quote}

QueryTexts == UNION {[1..n -> QueryChars] : n \in 0..MaxQueryLen}

ShortQueryTexts == {q \in QueryTexts : Len(q) <= 2}

QueryRows ==
    {ConvRow(ConvId(1), SomeStr(<<"a">>), NoneStr, NoneStr, 0, <<>>),
     ConvRow(ConvId(2), NoneStr, NoneStr, NoneStr, 0, <<>>),
     MsgRow(ConvId(1), BubbleId(1), SomeStr(<<"a">>)),
     MsgRow(ConvId(2), BubbleId(1), SomeStr(<<Quote>>))}

CallParseSearchQuery ==
    \E query \in QueryTexts :
        /\ call = NoCall
        /\ call' = [op |-> "parse_search_query", query |-> query, at |-> now]
        /\ result' = Returned(parse_search_query(query))
        /\ UNCHANGED <<store, now, self, connections>>

WriteQuery == Put(QueryRows)
SearchQuery == CallSearchConversations(ShortQueryTexts, {NoneStr}, {NoneStr}, BOOLEAN)

NextQuery ==
    \/ WriteQuery
    \/ CallParseSearchQuery
    \/ SearchQuery
    \/ Return

SpecQuery == InitStore /\ [][NextQuery]_vars

(***************************************************************************)
(* The single-record operations, the message listing and the title search  *)
(* as calls on the store (SpecRead).  The store may hold values that are   *)
(* not JSON.                                                               *)
(***************************************************************************)
MsgRowFull(cid, mid, text, createdAt, type, modelName) ==
    [key |-> MsgKey(cid, mid),
     value |-> [bubbleId |-> SomeStr(mid), text |-> text, createdAt |-> createdAt,
                type |-> type, modelName |-> modelName]]

MalformedRow(key) == [key |-> key, value |-> MalformedJson]

\* createdAt and type of the messages drawn; "10" < "2" as text.
ReadStamps ==
    {<<NoneStr, SomeInt(1)>>, <<SomeStr(<<"1", "0">>), SomeInt(2)>>,
     <<SomeStr(<<"2">>), NoneInt>>, <<SomeStr(<<"1", "0">>), SomeInt(1)>>}

ReadRows ==
    {ConvRow(ConvId(1), SomeStr(<<"a">>), NoneStr, NoneStr, 0, <<>>),
     ConvRow(ConvId(2), NoneStr, NoneStr, NoneStr, 1, <<>>),
     MalformedRow(ConvKey(ConvId(2))),
     MsgRowFull(ConvId(2), BubbleId(1), SomeStr(<<"a">>), SomeStr(<<"2">>), SomeInt(1), NoneStr),
     MalformedRow(MsgKey(ConvId(1), BubbleId(2))),
     DiffRow(ConvId(1), DiffId(1), SomeStr(<<"a">>), NoneStr),
     MalformedRow(DiffKey(ConvId(1), DiffId(1)))}
    \cup {MsgRowFull(ConvId(1), BubbleId(j), SomeStr(<<"a">>), stamp[1], stamp[2], NoneStr) :
            j \in 1..MaxRows, stamp \in ReadStamps}

\* x" OR "a"="a
InjectedId == <<"x">> \o OrInjection \o <<"a">> \o EqInjection \o <<"a">>

ReadIds == {ConvId(1), ConvId(2), ConvId(3)}
ConversationIds == ReadIds \cup {<<"C", "1">>, <<"c", "1", Quote>>, InjectedId}

CallGetConversation ==
    \E composer_id \in ConversationIds :
        RepositoryCall([op |-> "get_conversation", composer_id |-> composer_id, at |-> now],
                       get_conversation(_connect(self, store), composer_id))

CallGetMessages(composer_ids) ==
    \E composer_id \in composer_ids :
        RepositoryCall([op |-> "get_messages", composer_id |-> composer_id, at |-> now],
                       get_messages(_connect(self, store), composer_id))

CallGetCodeBlockDiff ==
    \E composer_id \in {ConvId(1)}, diff_id \in {DiffId(1), DiffId(2)} :
        RepositoryCall([op |-> "get_code_block_diff", composer_id |-> composer_id,
                        diff_id |-> diff_id, at |-> now],
                       get_code_block_diff(_connect(self, store), composer_id, diff_id))

CallFindByTitle ==
    \E title_query \in {<<"A">>, <<"n", "o">>}, include_empty \in BOOLEAN :
        RepositoryCall([op |-> "find_by_title", title_query |-> title_query,
                        include_empty |-> include_empty, at |-> now],
                       find_by_title(_connect(self, store), title_query, include_empty, now))

WriteRead == Put(ReadRows)
MessagesRead == CallGetMessages(ReadIds)
ListRead == CallListConversations({NoneStr}, {NoneStr})
SearchRead == CallSearchConversations({<<"a">>}, {NoneStr}, {NoneStr}, BOOLEAN)

NextRead ==
    \/ WriteRead
    \/ ListRead
    \/ CallGetConversation
    \/ MessagesRead
    \/ SearchRead
    \/ CallFindByTitle
    \/ CallGetCodeBlockDiff
    \/ Return

SpecRead == InitStore /\ [][NextRead]_vars

(***************************************************************************)
(* Formatting a conversation (SpecFormat): the messages are those that     *)
(* get_messages returns, as in the show and export commands.               *)
(***************************************************************************)
Gpt4 == <<"g", "p", "t", "-", "4">>
Claude35 == <<"c", "l", "a", "u", "d", "e", "-", "3", "-", "5">>

ModelOverrides == {NoneStr, SomeStr(<<>>), SomeStr(DefaultModel), SomeStr(Gpt4), SomeStr(Claude35)}

FormatRows ==
    {MsgRowFull(ConvId(1), BubbleId(j), SomeStr(<<"a">>), SomeStr(ToDigits(j)),
                SomeInt(1), model) : j \in 1..MaxRows, model \in ModelOverrides}

\* The conversation handed to the formatter: it has no code blocks.
FormatConversation ==
    ConvRow(ConvId(1), SomeStr(<<"a">>), NoneStr, NoneStr, 0, <<>>).value

\* formatter.format_conversation(conversation, messages, show_empty=...)
FormatConversationCall(formatter, composer_id, conversation, messages, show_empty) ==
    /\ call = NoCall
    /\ call' = [op |-> "format_conversation", formatter |-> formatter,
                composer_id |-> composer_id, conversation |-> conversation,
                messages |-> messages, show_empty |-> show_empty, at |-> now]
    /\ result' = Returned(IF formatter = "markdown"
                          THEN MarkdownFormat(conversation, messages, show_empty)
                          ELSE RichFormat(conversation, messages, show_empty))
    /\ UNCHANGED <<store, now, self, connections>>

CallMarkdownFormat ==
    \E show_empty \in BOOLEAN :
        /\ get_messages(store, ConvId(1)).raised = ""
        /\ FormatConversationCall("markdown", ConvId(1), FormatConversation,
                                  get_messages(store, ConvId(1)).value, show_empty)

CallRichFormat ==
    \E show_empty \in BOOLEAN :
        /\ get_messages(store, ConvId(1)).raised = ""
        /\ FormatConversationCall("rich", ConvId(1), FormatConversation,
                                  get_messages(store, ConvId(1)).value, show_empty)

WriteFormat == Put(FormatRows)

NextFormat == WriteFormat \/ CallMarkdownFormat \/ CallRichFormat \/ Return

SpecFormat == InitStore /\ [][NextFormat]_vars

(***************************************************************************)
(* The statistics as calls on a collection (SpecStats): each call builds   *)
(* ConversationStats(conversations) and applies one method.                *)
(***************************************************************************)
MaxValues == 11
MaxCollection == 3
MaxPeriods == 3

StatsConversation(i, message_count, created) ==
    [id |-> ConvId(i), message_count |-> message_count, created |-> created]

\* Collections for compute: up to MaxValues conversations with 1 or 2 messages.
ValueCollections ==
    UNION {{[i \in 1..n |-> StatsConversation(i, counts[i], NoneInt)] :
               counts \in [1..n -> {1, 2}]} : n \in 0..MaxValues}

WeekTicks == 7 * DayTicks

\* Week 3 of the model's calendar starts on Monday 2024-01-15.
Week3 == 2 * WeekTicks

\* Instants around the ends of days and weeks.
StatsInstants ==
    {Week3 - SecondTicks,             \* Sunday 23:59:59
     Week3 - 1,                       \* the last step before Monday 00:00
     Week3,                           \* Monday 00:00
     Week3 + 2 * DayTicks + 1,        \* Wednesday, just after midnight
     Week3 - WeekTicks}               \* Monday 00:00, a week before

ReferenceDates == {NoneInt, SomeInt(Week3), SomeInt(Week3 + 2 * DayTicks + 1), SomeInt(Week3 + WeekTicks - 1)}

PeriodCollections ==
    UNION {{[i \in 1..n |-> StatsConversation(i, 1, createds[i])] :
               createds \in [1..n -> {NoneInt} \cup {SomeInt(t) : t \in StatsInstants}]} :
           n \in 0..(MaxCollection - 1)}

TopCollections ==
    UNION {{[i \in 1..n |-> StatsConversation(i, counts[i], NoneInt)] :
               counts \in [1..n -> 0..2]} : n \in 0..MaxCollection}

\* Collections and buckets for the histogram: values 0..3 and lists of one
\* or two buckets with different names, which may overlap, leave gaps and
\* come in any order.
Bucket(name, low, high) == [name |-> name, low |-> low, high |-> high, open |-> FALSE]

BucketChoices == {Bucket("a", 1, 1), Bucket("b", 1, 2), Bucket("c", 2, 2), Bucket("d", 3, 3)}

BucketLists ==
    {<<b>> : b \in BucketChoices}
    \cup {pair \in BucketChoices \X BucketChoices : pair[1].name # pair[2].name}

HistogramCollections ==
    UNION {{[i \in 1..n |-> StatsConversation(i, counts[i], NoneInt)] :
               counts \in [1..n -> 0..3]} : n \in 0..MaxCollection}

ComputeInputs ==
    {<<conversations, NoBuckets>> : conversations \in ValueCollections}
    \cup {<<conversations, [some |-> TRUE, v |-> buckets]>> :
             conversations \in HistogramCollections, buckets \in BucketLists}

CallCompute ==
    \E input \in ComputeInputs :
        /\ call = NoCall
        /\ call' = [op |-> "compute", conversations |-> input[1],
                    metric |-> "message_count", buckets |-> input[2], at |-> now]
        /\ result' = Returned(compute(input[1], "message_count", "", input[2]))
        /\ UNCHANGED <<store, now, self, connections>>

CallByPeriod ==
    \E conversations \in PeriodCollections, period \in {"week", "day", "month"},
       num_periods \in 0..MaxPeriods, reference_date \in ReferenceDates :
        /\ call = NoCall
        /\ call' = [op |-> "by_period", conversations |-> conversations,
                    period |-> period, num_periods |-> num_periods,
                    reference_date |-> reference_date, at |-> now]
        /\ result' = by_period(conversations, period, "message_count", num_periods,
                               reference_date, now)
        /\ UNCHANGED <<store, now, self, connections>>

CallTopConversations ==
    \E conversations \in TopCollections, n \in 0..(MaxCollection + 1), descending \in BOOLEAN :
        /\ call = NoCall
        /\ call' = [op |-> "top_conversations", conversations |-> conversations,
                    n |-> n, descending |-> descending, at |-> now]
        /\ result' = Returned(top_conversations(conversations, "message_count", n, descending))
        /\ UNCHANGED <<store, now, self, connections>>

NextStats == CallCompute \/ CallByPeriod \/ CallTopConversations \/ Return

SpecStats == InitStore /\ [][NextStats]_vars

(***************************************************************************)
(* Searching code edits and diffs (SpecDiffs): single ASCII terms that     *)
(* occur in a file path, in a diff's original or modified text, in a       *)
(* message, only in the member names of a stored diff, or nowhere.         *)
(***************************************************************************)
PathText == <<"P", "y">>

DiffSearchRows ==
    {ConvRow(ConvId(1), NoneStr, NoneStr, NoneStr, 0, <<CodeEdit(PathText, BubbleId(1))>>),
     ConvRow(ConvId(1), NoneStr, NoneStr, NoneStr, 0, <<>>),
     ConvRow(ConvId(2), NoneStr, NoneStr, NoneStr, 1, <<>>),
     MsgRow(ConvId(2), BubbleId(1), SomeStr(<<"k">>)),
     DiffRow(ConvId(1), DiffId(1), SomeStr(<<"Q">>), NoneStr),
     DiffRow(ConvId(1), DiffId(1), NoneStr, SomeStr(<<"w">>)),
     DiffRow(ConvId(2), DiffId(1), SomeStr(<<"q">>), SomeStr(<<"w">>))}

DiffTerms == {<<"p", "y">>, <<"q">>, <<"W">>, <<"k">>, <<"x">>, <<"z">>}

WriteDiffs == Put(DiffSearchRows)
SearchDiffs == CallSearchConversations(DiffTerms, {NoneStr}, {NoneStr}, BOOLEAN)

NextDiffs == WriteDiffs \/ SearchDiffs \/ Return

SpecDiffs == InitStore /\ [][NextDiffs]_vars

(***************************************************************************)
(* Messages and the conversation they belong to (SpecKeys): conversation   *)
(* ids that differ in letter case, and ids holding '%' or '_'.             *)
(***************************************************************************)
UpperId == <<"C", "1">>

KeyRows ==
    {ConvRow(ConvId(1), NoneStr, NoneStr, NoneStr, 0, <<>>),
     ConvRow(UpperId, NoneStr, NoneStr, NoneStr, 1, <<>>),
     ConvRow(ConvId(2), NoneStr, NoneStr, NoneStr, 2, <<>>),
     MsgRowFull(ConvId(1), BubbleId(1), SomeStr(<<"a">>), SomeStr(<<"1">>), SomeInt(1), NoneStr),
     MsgRowFull(UpperId, BubbleId(2), SomeStr(<<"a">>), SomeStr(<<"2">>), SomeInt(1), NoneStr),
     MsgRowFull(ConvId(2), BubbleId(3), SomeStr(<<"a">>), SomeStr(<<"3">>), SomeInt(2), NoneStr)}

KeyIds == {ConvId(1), UpperId, ConvId(2), ConvId(3), <<"c", Underscore>>, <<"c", Percent>>}

MessagesByKey == CallGetMessages(KeyIds)
WriteKeys == Put(KeyRows)
ListKeys == CallListConversations({NoneStr}, {NoneStr})

SearchKeys == CallSearchConversations({<<"a">>}, {NoneStr}, {NoneStr}, BOOLEAN)

NextKeys ==
    \/ WriteKeys
    \/ MessagesByKey
    \/ ListKeys
    \/ SearchKeys
    \/ CallGetCodeBlockDiff
    \/ Return

SpecKeys == InitStore /\ [][NextKeys]_vars

(***************************************************************************)
(* The show command (SpecTranscript), cli.py: get_conversation, then       *)
(* get_messages, then format_conversation, next to the listing of the same *)
(* store.  Message texts include whitespace other than spaces.             *)
(***************************************************************************)
TranscriptTexts ==
    {NoneStr, SomeStr(<<>>), SomeStr(<<" ">>), SomeStr(<<"\n">>), SomeStr(<<"\t">>),
     SomeStr(<<"a">>)}

TranscriptRows ==
    {ConvRow(ConvId(1), SomeStr(<<"a">>), NoneStr, NoneStr, 0, blocks) :
        blocks \in {<<>>, <<CodeEdit(<<"f">>, BubbleId(1))>>}}
    \cup {MsgRowFull(ConvId(1), BubbleId(j), text, NoneStr, SomeInt(1), NoneStr) :
            j \in 1..MaxRows - 1, text \in TranscriptTexts}

Show(formatter) ==
    \E show_empty \in BOOLEAN :
        /\ get_conversation(store, ConvId(1)).raised = ""
        /\ get_messages(store, ConvId(1)).raised = ""
        /\ FormatConversationCall(formatter, ConvId(1),
                                  get_conversation(store, ConvId(1)).value,
                                  get_messages(store, ConvId(1)).value, show_empty)

ShowMarkdown == Show("markdown")
ShowRich == Show("rich")
WriteTranscript == Put(TranscriptRows)
ListTranscript == CallListConversations({NoneStr}, {NoneStr})

NextTranscript == WriteTranscript \/ ListTranscript \/ ShowMarkdown \/ ShowRich \/ Return

SpecTranscript == InitStore /\ [][NextTranscript]_vars

(***************************************************************************)
(* search_conversations in two steps, with a concurrent writer             *)
(* (SpecConcurrent).  The matching scan (database.py lines 267-297) runs   *)
(* on one connection, which is closed; the listing scan (line 300) runs on *)
(* the connection list_conversations opens.  Another process may insert a  *)
(* row or replace the value of a row between the two.  The local           *)
(* matching_ids of the call in progress is kept in the call record, with   *)
(* pc telling which step comes next.                                       *)
(***************************************************************************)
ConcurrentRows ==
    {ConvRow(ConvId(i), SomeStr(name), NoneStr, NoneStr, 0, <<>>) :
        i \in 1..2, name \in {<<"a">>, <<"b">>}}
    \cup {MsgRow(ConvId(1), BubbleId(1), SomeStr(text)) : text \in {<<"a">>, <<"b">>}}

\* The ids the matching scan leaves in matching_ids (none when it ends early).
MatchingScan(st, terms, search_diffs) ==
    IF terms = <<>> \/ SearchJsonError(st, search_diffs) THEN {}
    ELSE MatchingIds(st, terms, TRUE, {}, search_diffs)

\* How the matching scan ends when it ends the call.
MatchingScanOutcome(st, terms, search_diffs) ==
    IF terms # <<>> /\ SearchJsonError(st, search_diffs) THEN Raised("OperationalError")
    ELSE Returned(<<>>)

SearchMatchingScan ==
    \E query \in {<<"a">>, <<"b">>}, include_empty \in BOOLEAN :
        /\ call = NoCall
        /\ call' = [op |-> "search_conversations", query |-> query,
                    since |-> NoneStr, before |-> NoneStr,
                    include_empty |-> include_empty, search_diffs |-> FALSE, at |-> now,
                    matching_ids |-> MatchingScan(_connect(self, store),
                                                  parse_search_query(query), FALSE),
                    pc |-> IF MatchingScan(_connect(self, store),
                                           parse_search_query(query), FALSE) = {}
                           THEN "done" ELSE "listing"]
        /\ result' = MatchingScanOutcome(_connect(self, store),
                                         parse_search_query(query), FALSE)
        /\ connections' = connections + OpenAfter("search_conversations", result'.raised)
        /\ UNCHANGED <<store, now, self>>

SearchListingScan ==
    /\ call # NoCall
    /\ call.pc = "listing"
    /\ call' = [call EXCEPT !.pc = "done"]
    /\ result' = Materialize(list_conversations(_connect(self, store), call.since,
                                                call.before, call.include_empty, now),
                             call.matching_ids)
    /\ connections' = connections + OpenAfter("search_conversations", result'.raised)
    /\ UNCHANGED <<store, now, self>>

SearchReturn ==
    /\ call # NoCall
    /\ call.pc = "done"
    /\ Return

\* The other process commits between two calls or between the two scans.
WriterMayCommit == IF call = NoCall THEN TRUE ELSE call.pc = "listing"

ConcurrentInsert ==
    \E r \in ConcurrentRows :
        /\ WriterMayCommit
        /\ MayInsert(store, r)
        /\ store' = Append(store, r)
        /\ UNCHANGED <<now, call, result, self, connections>>

ConcurrentUpdate ==
    \E r \in ConcurrentRows, i \in 1..Len(store) :
        /\ WriterMayCommit
        /\ store[i].key = r.key
        /\ store[i] # r
        /\ store' = [store EXCEPT ![i] = r]
        /\ UNCHANGED <<now, call, result, self, connections>>

NextConcurrent ==
    \/ ConcurrentInsert
    \/ ConcurrentUpdate
    \/ SearchMatchingScan
    \/ SearchListingScan
    \/ SearchReturn

SpecConcurrent == InitStore /\ [][NextConcurrent]_vars

(***************************************************************************)
(* Properties of the time utilities (SpecTime)                             *)
(***************************************************************************)
IsCall(op) == call # NoCall /\ call.op = op

CallReturned(op) == IsCall(op) /\ result.raised = ""

\* The instant a given bound text stands for at the time of the current call.
BoundInstant(bound) == parse_datetime(bound.v, call.at).v

\* A text that is given and that the time parser cannot parse.
Unparsable(bound) == Truthy(bound) /\ ~parse_datetime(bound.v, call.at).some

InWindow(item) ==
    /\ item.created.kind = "datetime"
    /\ Truthy(call.since) => BoundInstant(call.since) <= item.created.v
    /\ Truthy(call.before) => item.created.v < BoundInstant(call.before)

\* C9: filter_by_time_range returns, in the order of the input, exactly the
\* items whose created instant t satisfies since <= t (since given) and
\* t < before (before given); items without a valid instant are dropped once
\* a bound is given; with neither bound the input is returned unchanged.
C9_FilterKeepsExactlyTheWindow ==
    CallReturned("filter_by_time_range") =>
        IF ~Truthy(call.since) /\ ~Truthy(call.before)
        THEN result.value = call.items
        ELSE result.value = SelectSeq(call.items, InWindow)

\* Both bounds given; an item exactly at since is kept, an item exactly at
\* before is excluded and an item without an instant is dropped.
C9_Witness ==
    /\ CallReturned("filter_by_time_range")
    /\ Truthy(call.since) /\ Truthy(call.before)
    /\ \E i, j, k \in 1..Len(call.items) :
          /\ call.items[i].created = CreatedAt(BoundInstant(call.since))
          /\ call.items[j].created = CreatedAt(BoundInstant(call.before))
          /\ call.items[k].created = NoCreated
          /\ result.value = <<call.items[i]>>

\* The duration, in minutes, that the documentation gives each unit spelling.
DocumentedMinutes(unit) ==
    IF unit \in MinuteUnits THEN 1
    ELSE IF unit \in HourUnits THEN MinutesPerHour
    ELSE IF unit \in DayUnits THEN MinutesPerDay
    ELSE IF unit \in WeekUnits THEN DaysPerWeek * MinutesPerDay
    ELSE IF unit \in MonthUnits THEN DaysPerMonth * MinutesPerDay
    ELSE DaysPerYear * MinutesPerDay

\* C10: for every n >= 0 and every accepted unit spelling, n followed by the
\* unit (with or without a space, with or without " ago") parses to now minus
\* n times the unit's duration, a month being 30 days and a year 365 days.
C10_RelativeTimeUnits ==
    \A n \in 0..MaxAmount, sep \in Separators,
       i \in 1..Len(UnitAlternation), suf \in Suffixes :
        (IsCall("parse_relative_time") /\ call.text = RelativeText(n, sep, i, suf))
            => result.value = SomeInt(call.at - n * DocumentedMinutes(UnitAlternation[i]))

(***************************************************************************)
(* Properties of the listing (SpecCount, SpecOrder)                        *)
(***************************************************************************)
StoredConversations == {i \in 1..Len(store) : IsConvRow(store[i])}

\* The messages of a conversation: the rows keyed bubbleId:{cid}:...
MessagesOfConversation(cid) ==
    {i \in 1..Len(store) :
        /\ IsMsgRow(store[i])
        /\ StartsWith(store[i].key.rest, cid \o <<Colon>>)}

\* Some code edit in the codeBlockData of conversation cid names the message.
HasLinkedEdit(cid, message) ==
    \E i \in StoredConversations :
        /\ store[i].key = ConvKey(cid)
        /\ \E j \in 1..Len(store[i].value.codeBlockData) :
              SomeStr(store[i].value.codeBlockData[j].bubbleId) = message.value.bubbleId

HasNonEmptyText(message) == message.value.text.some /\ message.value.text.v # <<>>

\* Text with a character other than the space character.
HasNonSpaceText(message) ==
    /\ message.value.text.some
    /\ \E p \in 1..Len(message.value.text.v) : message.value.text.v[p] # " "

CountableLiteral(cid) ==
    {i \in MessagesOfConversation(cid) :
        HasNonEmptyText(store[i]) \/ HasLinkedEdit(cid, store[i])}

Countable(cid) ==
    {i \in MessagesOfConversation(cid) :
        HasNonSpaceText(store[i]) \/ HasLinkedEdit(cid, store[i])}

\* C1 as stated: message_count is the number of the conversation's messages
\* that have non-empty text or at least one linked code edit.
C1_CountsNonEmptyText ==
    (CallReturned("list_conversations") /\ ~call.include_empty) =>
        \A k \in 1..Len(result.value) :
            result.value[k].message_count
                = Cardinality(CountableLiteral(result.value[k].id))

\* C1 (amended): for every conversation returned by
\* list_conversations(include_empty=False), message_count is the number of
\* its messages whose text holds a character other than the space character
\* (the text is non-empty after leading and trailing spaces are removed) or
\* that a code edit of the conversation's codeBlockData names; each such
\* message is counted exactly once.
C1_MessageCount ==
    (CallReturned("list_conversations") /\ ~call.include_empty) =>
        \A k \in 1..Len(result.value) :
            result.value[k].message_count
                = Cardinality(Countable(result.value[k].id))

\* A listed conversation whose one message has text and two linked edits.
C1_Witness ==
    /\ CallReturned("list_conversations") /\ ~call.include_empty
    /\ \E k \in 1..Len(result.value) :
          /\ result.value[k].message_count = 1
          /\ \E i \in Countable(result.value[k].id) :
                /\ HasNonSpaceText(store[i])
                /\ \E c \in StoredConversations :
                      /\ store[c].key = ConvKey(result.value[k].id)
                      /\ Len(store[c].value.codeBlockData) = 2
                      /\ HasLinkedEdit(result.value[k].id, store[i])

RECURSIVE IsSubseq(_, _)
IsSubseq(a, b) ==
    IF a = <<>> THEN TRUE
    ELSE IF b = <<>> THEN FALSE
    ELSE IF Head(a) = Head(b) THEN IsSubseq(Tail(a), Tail(b))
    ELSE IsSubseq(a, Tail(b))

ResultIds == {result.value[k].id : k \in 1..Len(result.value)}

StoredIds(S) == {store[i].key.rest : i \in S}

\* The listing the same call yields with the other include_empty value.
OtherListing ==
    list_conversations(store, call.since, call.before, ~call.include_empty, call.at)

\* C2: include_empty=False returns exactly the stored conversations with a
\* message_count of at least 1, include_empty=True returns every stored
\* conversation (with message_count 0 where nothing counts), and the former
\* is a subsequence of the latter with the same records.
C2_IncludeEmpty ==
    CallReturned("list_conversations") =>
        /\ Len(result.value) = Cardinality(ResultIds)
        /\ \A k \in 1..Len(result.value) :
              result.value[k].message_count = Cardinality(Countable(result.value[k].id))
        /\ IF call.include_empty
           THEN /\ ResultIds = StoredIds(StoredConversations)
                /\ IsSubseq(OtherListing.value, result.value)
           ELSE /\ ResultIds = StoredIds({i \in StoredConversations :
                                             Countable(store[i].key.rest) # {}})
                /\ IsSubseq(result.value, OtherListing.value)

\* Two stored conversations, of which include_empty=False drops one that
\* include_empty=True lists with message_count 0.
C2_Witness ==
    /\ CallReturned("list_conversations") /\ ~call.include_empty
    /\ Cardinality(StoredConversations) = 2
    /\ Len(result.value) = 1
    /\ Len(OtherListing.value) = 2
    /\ \E k \in 1..2 : OtherListing.value[k].message_count = 0

\* The position of a listed conversation's row in the store.
StorePosition(conv) == CHOOSE i \in StoredConversations : store[i].key = ConvKey(conv.id)

\* C3: the listing is ordered newest first: of two adjacent results the
\* earlier has a created instant at or after the later one's; conversations
\* without createdAt come after all that have one; conversations with equal
\* created instants keep their store iteration order.
C3_NewestFirst ==
    CallReturned("list_conversations") =>
        /\ \A k \in 1..(Len(result.value) - 1) :
              /\ result.value[k].created.kind = "None"
                    => result.value[k + 1].created.kind = "None"
              /\ (result.value[k].created.kind = "datetime"
                  /\ result.value[k + 1].created.kind = "datetime")
                    => result.value[k].created.v >= result.value[k + 1].created.v
        /\ \A k, l \in 1..Len(result.value) :
              (k < l /\ result.value[k].created = result.value[l].created)
                  => StorePosition(result.value[k]) < StorePosition(result.value[l])

\* Three listed conversations: two created at the same instant, in store
\* order, then one without createdAt that the store holds first.
C3_Witness ==
    /\ CallReturned("list_conversations")
    /\ Len(result.value) = 3
    /\ result.value[1].created.kind = "datetime"
    /\ result.value[1].created = result.value[2].created
    /\ result.value[3].created = NoCreated
    /\ StorePosition(result.value[3]) = 1

\* The listing called with the filters of the current search.
SameListing ==
    list_conversations(store, call.since, call.before, call.include_empty, call.at)

\* C4: on an unchanged store the result of search_conversations is a
\* subsequence of list_conversations called with the same since, before and
\* include_empty: the same records in the same relative order.  (Where the
\* listing fails with an error a returned search result is empty.)
C4_SearchWithinListing ==
    CallReturned("search_conversations") =>
        IF SameListing.raised = ""
        THEN IsSubseq(result.value, SameListing.value)
        ELSE result.value = <<>>

\* A search inside a time window that returns one of two listed conversations
\* while the store holds a third conversation or row outside the result.
C4_Witness ==
    /\ CallReturned("search_conversations")
    /\ Truthy(call.before)
    /\ Len(result.value) = 1
    /\ Len(SameListing.value) = 2
    /\ result.value[1] = SameListing.value[2]

\* C8: a since or before text the time parser cannot parse makes every call
\* of filter_by_time_range, list_conversations and search_conversations fail
\* with ValueError, whatever the store and the query.
C8_UnparsableAlwaysRaises ==
    (/\ call # NoCall
     /\ call.op \in {"filter_by_time_range", "list_conversations", "search_conversations"}
     /\ (Unparsable(call.since) \/ Unparsable(call.before)))
        => result.raised = "ValueError"

(***************************************************************************)
(* Properties of the search (SpecSearch)                                   *)
(***************************************************************************)
\* The search of one term with the filters of the current call.
SearchOf(term) ==
    search_conversations(store, term, call.since, call.before,
                         call.include_empty, call.search_diffs, call.at)

IdsOf(outcome) == {outcome.value[k].id : k \in 1..Len(outcome.value)}

RECURSIVE IntersectAll(_)
IntersectAll(sets) ==
    IF Len(sets) = 1 THEN sets[1] ELSE sets[1] \cap IntersectAll(Tail(sets))

\* C5: multi-term search is AND by intersection: the conversations returned
\* for a query of several terms are those returned for every one of its
\* terms alone under the same filters; a term that matches nothing empties
\* the result, and the early return changes nothing.
C5_TermsIntersect ==
    \A terms \in TermLists :
        (CallReturned("search_conversations") /\ call.query = JoinTerms(terms)) =>
            /\ ResultIds = IntersectAll([k \in 1..Len(terms) |-> IdsOf(SearchOf(terms[k]))])
            /\ (\E k \in 1..Len(terms) : IdsOf(SearchOf(terms[k])) = {}) => result.value = <<>>

\* A two-term search returning one conversation while each of the terms
\* alone returns it and, for the first term, one more.
C5_Witness ==
    /\ CallReturned("search_conversations")
    /\ call.query = JoinTerms(<<MixedCaseTerm, NeedleText>>)
    /\ Len(result.value) = 1
    /\ Cardinality(IdsOf(SearchOf(MixedCaseTerm))) = 2
    /\ IdsOf(SearchOf(NeedleText)) = ResultIds

\* Case folding of all letters, and of the ASCII letters only.
FoldAll(c) == PyLowerChar(c)
FoldAscii(c) == AsciiLowerChar(c)

\* term occurs in text as an unanchored substring, characters compared
\* after folding.
Occurs(term, text, Fold(_)) ==
    \E p \in 0..(Len(text) - Len(term)) :
        \A q \in 1..Len(term) : Fold(text[p + q]) = Fold(term[q])

OccursInAMessage(term, cid, Fold(_)) ==
    \E i \in MessagesOfConversation(cid) :
        store[i].value.text.some /\ Occurs(term, store[i].value.text.v, Fold)

\* The stored record of a listed conversation.
StoredValue(conv) == store[StorePosition(conv)].value

OccursInListedFields(term, conv) ==
    \/ Occurs(term, conv.title, FoldAll)
    \/ Occurs(term, conv.subtitle, FoldAll)
    \/ Occurs(term, conv.preview, FoldAll)
    \/ OccursInAMessage(term, conv.id, FoldAll)

OccursInStoredFields(term, conv) ==
    \/ StoredValue(conv).name.some /\ Occurs(term, StoredValue(conv).name.v, FoldAscii)
    \/ StoredValue(conv).subtitle.some /\ Occurs(term, StoredValue(conv).subtitle.v, FoldAscii)
    \/ StoredValue(conv).text.some /\ Occurs(term, StoredValue(conv).text.v, FoldAscii)
    \/ OccursInAMessage(term, conv.id, FoldAscii)

IsReturned(conv) == \E k \in 1..Len(result.value) : result.value[k] = conv

SingleTermSearch(terms) ==
    /\ CallReturned("search_conversations")
    /\ ~call.search_diffs
    /\ call.query \in terms

\* C6 as stated: a listed conversation is returned for a single term exactly
\* when the term occurs, case-insensitively, in the title, subtitle or
\* preview the listing exposes or in the text of one of its messages.
C6_MatchesListedFields ==
    SingleTermSearch(SingleTerms) =>
        \A k \in 1..Len(SameListing.value) :
            IsReturned(SameListing.value[k])
                <=> OccursInListedFields(call.query, SameListing.value[k])

\* C6 (amended): for a single-term query with search_diffs=False, a
\* conversation of the listing (same filters) is returned exactly when the
\* term occurs as an unanchored substring, ASCII letters compared without
\* regard to case and every other character exactly, in the conversation's
\* stored name, stored subtitle, whole stored text (not only its first 100
\* characters) or the text of one of its messages; the "(no title)"
\* placeholder of the listing is not searched.
C6_MatchesStoredFields ==
    SingleTermSearch(SingleTerms) =>
        \A k \in 1..Len(SameListing.value) :
            IsReturned(SameListing.value[k])
                <=> OccursInStoredFields(call.query, SameListing.value[k])

\* An upper-case-first term found in a mixed-case message text, beside a
\* listed conversation that is not returned.
C6_Witness ==
    /\ SingleTermSearch({MixedCaseTerm})
    /\ Len(SameListing.value) = 2
    /\ Len(result.value) = 1
    /\ StoredValue(result.value[1]).name = NoneStr
    /\ \E i \in MessagesOfConversation(result.value[1].id) :
          store[i].value.text = SomeStr(MixedCaseText)

\* The texts of the fields searched for a conversation id.
SearchedTexts(cid) ==
    {f.v : f \in {g \in UNION {{store[i].value.name, store[i].value.subtitle,
                                store[i].value.text} :
                               i \in {j \in StoredConversations : store[j].key = ConvKey(cid)}} :
                  g.some}}
    \cup {store[i].value.text.v : i \in {j \in MessagesOfConversation(cid) :
                                             store[j].value.text.some}}

AllSearchedTexts ==
    UNION {SearchedTexts(store[i].key.rest) : i \in StoredConversations}
    \cup {store[i].value.text.v : i \in {j \in 1..Len(store) :
                                             IsMsgRow(store[j]) /\ store[j].value.text.some}}

\* C7: a term holding '%', '_' or a backslash matches a field only where
\* that exact character sequence occurs in it: the pattern built for the
\* term matches a stored text exactly when the sequence occurs there, and
\* every returned conversation has a field in which it occurs.
C7_LiteralMatching ==
    SingleTermSearch(MetacharTerms) =>
        /\ \A text \in AllSearchedTexts :
              LowerLike(text, LikePattern(call.query)) <=> Occurs(call.query, text, FoldAscii)
        /\ \A k \in 1..Len(result.value) :
              \E text \in SearchedTexts(result.value[k].id) :
                  Occurs(call.query, text, FoldAscii)
        /\ \A k \in 1..Len(SameListing.value) :
              (\E text \in SearchedTexts(SameListing.value[k].id) :
                  Occurs(call.query, text, FoldAscii))
                    => IsReturned(SameListing.value[k])

\* The term a%b returns the conversation whose text is a%b and not the
\* listed conversation named aXb, which the term would match as a pattern.
C7_Witness ==
    /\ SingleTermSearch({PercentText})
    /\ Len(SameListing.value) = 2
    /\ Len(result.value) = 1
    /\ StoredValue(result.value[1]).text = SomeStr(PercentText)
    /\ \E k \in 1..2 : StoredValue(SameListing.value[k]).name = SomeStr(MixedCaseText)

(***************************************************************************)
(* Properties of the tokenizer (SpecQuery)                                 *)
(***************************************************************************)
\* Position of the quote that closes the double-quoted substring opening at
\* q[1], or 0 when no later quote exists.
NextQuote(q) ==
    IF \E j \in 2..Len(q) : q[j] = Quote
    THEN CHOOSE j \in 2..Len(q) : q[j] = Quote /\ \A k \in 2..(j - 1) : q[k] # Quote
    ELSE 0

\* A double-quoted substring opens at q[1].
OpensPhrase(q) == q # <<>> /\ Head(q) = Quote /\ NextQuote(q) > 0

\* Length of the run of characters at the start of q that are neither
\* whitespace nor the opening quote of a double-quoted substring.
RunLen(q) ==
    CHOOSE k \in 0..Len(q) :
        /\ \A i \in 1..k : ~IsSpace(q[i]) /\ ~OpensPhrase(SubSeq(q, i, Len(q)))
        /\ (k = Len(q) \/ IsSpace(q[k + 1]) \/ OpensPhrase(SubSeq(q, k + 1, Len(q))))

\* The terms as documented: each double-quoted substring one term, quotes
\* removed and inner whitespace kept; every other maximal run of
\* non-whitespace characters one term; no empty term.
RECURSIVE DocumentedTerms(_)
DocumentedTerms(q) ==
    IF q = <<>> THEN <<>>
    ELSE IF IsSpace(Head(q)) THEN DocumentedTerms(Tail(q))
    ELSE IF OpensPhrase(q)
         THEN (IF NextQuote(q) > 2 THEN <<SubSeq(q, 2, NextQuote(q) - 1)>> ELSE <<>>)
              \o DocumentedTerms(SubSeq(q, NextQuote(q) + 1, Len(q)))
    ELSE <<SubSeq(q, 1, RunLen(q))>> \o DocumentedTerms(SubSeq(q, RunLen(q) + 1, Len(q)))

\* C11: parse_search_query returns the terms in left-to-right order: each
\* double-quoted substring is one term with the quotes removed and its inner
\* whitespace kept, every other maximal run of non-whitespace characters is
\* one term, and no term is empty.
C11_TermsAsDocumented ==
    IsCall("parse_search_query") => result.value = DocumentedTerms(call.query)

IsBlank(text) == \A i \in 1..Len(text) : IsSpace(text[i])

\* C12: a search whose query is empty or holds whitespace only returns the
\* empty list, whatever the store, include_empty and search_diffs.
C12_BlankQueryReturnsNothing ==
    (IsCall("search_conversations") /\ IsBlank(call.query)) => result = Returned(<<>>)

\* A whitespace-only query on a store whose listing holds two conversations.
C12_Witness ==
    /\ IsCall("search_conversations")
    /\ call.query = <<" ">>
    /\ call.include_empty
    /\ Len(SameListing.value) = 2
    /\ result = Returned(<<>>)

(***************************************************************************)
(* Properties of the single-record operations and the message listing      *)
(* (SpecRead)                                                              *)
(***************************************************************************)
WellFormedAt(key) ==
    \E i \in 1..Len(store) : store[i].key = key /\ ~IsMalformed(store[i].value)

ValueAt(key) == store[CHOOSE i \in 1..Len(store) : store[i].key = key].value

\* C13: get_conversation(id) returns the stored record of the row whose key
\* is exactly composerData:{id} when there is such a row, and fails with
\* ValueError when there is none; it never returns another conversation's
\* record.  (Rows whose value is not JSON are left to C19.)
C13_ExactKeyOrNotFound ==
    IsCall("get_conversation") =>
        IF HasKey(store, ConvKey(call.composer_id))
        THEN WellFormedAt(ConvKey(call.composer_id))
                 => result = Returned(ValueAt(ConvKey(call.composer_id)))
        ELSE result.raised = "ValueError"

\* The rows of the messages of conversation cid.
MessageRowsOf(cid) ==
    {i \in 1..Len(store) :
        IsMsgRow(store[i]) /\ StartsWith(store[i].key.rest, cid \o <<Colon>>)}

RowOfMessage(message) ==
    CHOOSE i \in MessageRowsOf(call.composer_id) : store[i].value.bubbleId = message.id

CreatedKey(message) == IF message.created.some THEN message.created.v ELSE <<>>

CharOrder == <<"-", "0", "1", "2", "3", "4", "5", "6", "7", "8", "9", ":", "T">>
CharRank(c) == CHOOSE i \in 1..Len(CharOrder) : CharOrder[i] = c

\* a is before b in the order of texts.
TextBefore(a, b) ==
    \E k \in 0..Len(a) :
        /\ k <= Len(b)
        /\ SubSeq(a, 1, k) = SubSeq(b, 1, k)
        /\ IF k = Len(a) THEN k < Len(b)
           ELSE k < Len(b) /\ CharRank(a[k + 1]) < CharRank(b[k + 1])

\* C14: get_messages(id) returns the messages of the conversation in
\* ascending order of createdAt (as text); messages with equal createdAt keep
\* the order of their rows; a message without createdAt is before every
\* message that has one; the role is user exactly when type is 1.
C14_MessagesInCreatedOrder ==
    CallReturned("get_messages") =>
        /\ Len(result.value) = Cardinality(MessageRowsOf(call.composer_id))
        /\ \A i \in MessageRowsOf(call.composer_id) :
              \E k \in 1..Len(result.value) :
                  result.value[k].id = store[i].value.bubbleId
        /\ \A k, l \in 1..Len(result.value) :
              k < l =>
                /\ ~TextBefore(CreatedKey(result.value[l]), CreatedKey(result.value[k]))
                /\ CreatedKey(result.value[k]) = CreatedKey(result.value[l])
                      => RowOfMessage(result.value[k]) < RowOfMessage(result.value[l])
                /\ ~(result.value[k].created.some /\ ~result.value[l].created.some)
        /\ \A k \in 1..Len(result.value) :
              result.value[k].type =
                  IF store[RowOfMessage(result.value[k])].value.type = SomeInt(1)
                  THEN "user" ELSE "assistant"

\* Three messages: the one without createdAt was stored last and is returned
\* first; the other two have the same createdAt and different roles.
C14_Witness ==
    /\ CallReturned("get_messages")
    /\ Len(result.value) = 3
    /\ ~result.value[1].created.some
    /\ RowOfMessage(result.value[1]) > RowOfMessage(result.value[3])
    /\ result.value[2].created = result.value[3].created
    /\ result.value[2].type = "assistant"
    /\ result.value[3].type = "user"

\* C19: a value that is not JSON in a conversation or message row does not
\* abort list_conversations or get_messages: the call returns, and the
\* well-formed conversations (when empty ones are listed), respectively the
\* well-formed messages of the conversation, are all in the result.
C19_MalformedDoesNotAbort ==
    /\ IsCall("list_conversations") =>
          /\ result.raised = ""
          /\ call.include_empty =>
                \A i \in 1..Len(store) :
                    (IsConvRow(store[i]) /\ ~IsMalformed(store[i].value))
                        => \E k \in 1..Len(result.value) :
                               result.value[k].id = store[i].key.rest
    /\ IsCall("get_messages") =>
          /\ result.raised = ""
          /\ \A i \in MessageRowsOf(call.composer_id) :
                ~IsMalformed(store[i].value)
                    => \E k \in 1..Len(result.value) :
                           result.value[k].id = store[i].value.bubbleId

IsExplicit(message) == message.model.some /\ message.model.v # <<>> /\ message.model.v # DefaultModel

ExplicitUpTo(messages, k) == {j \in 1..k : IsExplicit(messages[j])}

Greatest(S) == CHOOSE i \in S : \A j \in S : j <= i

\* C18: the effective model of the k-th message is the override of the latest
\* message at a position <= k whose override is present and not "default",
\* and unknown when there is none; both formatters compute this sequence.
C18_EffectiveModel ==
    IsCall("format_conversation") =>
        /\ Len(result.value.effective_models) = Len(call.messages)
        /\ \A k \in 1..Len(call.messages) :
              result.value.effective_models[k] =
                  IF ExplicitUpTo(call.messages, k) = {} THEN NoneStr
                  ELSE call.messages[Greatest(ExplicitUpTo(call.messages, k))].model
        /\ result.value.effective_models = MarkdownEffectiveModels(call.messages)
        /\ result.value.effective_models = RichEffectiveModels(call.messages)

\* Overrides [gpt-4, (none), claude-3-5] give [gpt-4, gpt-4, claude-3-5].
C18_Witness ==
    /\ IsCall("format_conversation")
    /\ call.formatter = "markdown"
    /\ [k \in 1..Len(call.messages) |-> call.messages[k].model]
           = <<SomeStr(Gpt4), NoneStr, SomeStr(Claude35)>>
    /\ result.value.effective_models = <<SomeStr(Gpt4), SomeStr(Gpt4), SomeStr(Claude35)>>

(***************************************************************************)
(* Properties of the statistics (SpecStats)                                *)
(***************************************************************************)
CallValues == [i \in 1..Len(call.conversations) |-> call.conversations[i].message_count]

\* s[j] of the values sorted ascending, j counted from 0: the value v with at
\* most j values below it and more than j values not above it.
SortedAt(values, j) ==
    CHOOSE v \in {values[i] : i \in 1..Len(values)} :
        /\ Cardinality({i \in 1..Len(values) : values[i] < v}) <= j
        /\ Cardinality({i \in 1..Len(values) : values[i] <= v}) > j

\* floor(num / den)
FloorOf(num, den) == CHOOSE q \in 0..num : q * den <= num /\ num < (q + 1) * den

MedianTwice(values) ==
    IF Len(values) % 2 = 1 THEN 2 * SortedAt(values, (Len(values) - 1) \div 2)
    ELSE SortedAt(values, Len(values) \div 2 - 1) + SortedAt(values, Len(values) \div 2)

\* C15: over n >= 1 values sorted as s[0..n-1], p25 = s[floor(0.25 n)] and
\* p75 = s[floor(0.75 n)] when n >= 4 and both are the median when n < 4;
\* p90 = s[floor(0.90 n)] when n >= 10 and the maximum when n < 10.  (p25, p75
\* and the median are held doubled.)
C15_Percentiles ==
    (CallReturned("compute") /\ Len(call.conversations) >= 1) =>
        LET values == CallValues
            n == Len(values)
            maximum == SortedAt(values, n - 1)
        IN /\ result.value.median = MedianTwice(values)
           /\ result.value.max = maximum
           /\ result.value.p25 = IF n >= 4 THEN 2 * SortedAt(values, FloorOf(n, 4))
                                 ELSE MedianTwice(values)
           /\ result.value.p75 = IF n >= 4 THEN 2 * SortedAt(values, FloorOf(3 * n, 4))
                                 ELSE MedianTwice(values)
           /\ result.value.p90 = IF n >= 10 THEN SortedAt(values, FloorOf(9 * n, 10))
                                 ELSE maximum
           /\ n = 3 => result.value.p25 = result.value.median
                       /\ result.value.p75 = result.value.median
           /\ n = 9 => result.value.p90 = result.value.max

\* Eleven values whose p90, s[9], is below the maximum, s[10].
C15_Witness ==
    /\ CallReturned("compute")
    /\ result.value.count = 11
    /\ result.value.p90 < result.value.max

PeriodTicks(period) == IF period = "week" THEN WeekTicks ELSE DayTicks

CallReference ==
    IF call.reference_date.some THEN call.reference_date.v ELSE call.at * 60 * SecondTicks

CreatedWithin(conversations, from, until) ==
    {j \in 1..Len(conversations) :
        /\ conversations[j].created.some
        /\ from <= conversations[j].created.v
        /\ conversations[j].created.v < until}

\* C16: by_period returns num_periods results, most recent first; result i
\* covers the period i periods before the one that holds the reference date;
\* weeks start on Monday 00:00 and days at midnight (the model's instant 0
\* is a Monday 00:00); each count is the number of conversations of the
\* collection created in that period.
C16_PeriodsAsDocumented ==
    (IsCall("by_period") /\ call.period \in {"week", "day"}) =>
        /\ result.raised = ""
        /\ Len(result.value) = call.num_periods
        /\ \A i \in 1..Len(result.value) :
              LET start == result.value[i].start_date.v
                  length == PeriodTicks(call.period)
              IN /\ start % length = 0
                 /\ start <= CallReference - (i - 1) * length
                 /\ CallReference - (i - 1) * length < start + length
                 /\ result.value[i].count =
                        Cardinality(CreatedWithin(call.conversations, start, start + length))

MetricOf(conv) == conv.message_count

PositionIn(conversations, conv) ==
    CHOOSE i \in 1..Len(conversations) : conversations[i].id = conv.id

Better(x, y, descending) ==
    IF descending THEN MetricOf(x) > MetricOf(y) ELSE MetricOf(x) < MetricOf(y)

\* C17: top_conversations returns min(n, size) conversations ordered by the
\* metric, none left out being strictly better than one returned;
\* conversations with equal metric keep the order of the collection in both
\* directions; the collection is not reordered.
C17_TopConversations ==
    CallReturned("top_conversations") =>
        LET top == result.value.returned
            all == call.conversations
        IN /\ Len(top) = IF call.n < Len(all) THEN call.n ELSE Len(all)
           /\ \A k \in 1..Len(top) : \E i \in 1..Len(all) : all[i] = top[k]
           /\ \A k, l \in 1..Len(top) :
                 k < l =>
                   /\ top[k].id # top[l].id
                   /\ ~Better(top[l], top[k], call.descending)
                   /\ MetricOf(top[k]) = MetricOf(top[l])
                         => PositionIn(all, top[k]) < PositionIn(all, top[l])
           /\ \A i \in 1..Len(all) :
                 (\A k \in 1..Len(top) : top[k].id # all[i].id)
                     => \A k \in 1..Len(top) : ~Better(all[i], top[k], call.descending)
           /\ result.value.conversations = all

\* Descending, two of three: the two best have the same metric and are
\* returned in the order of the collection.
C17_Witness ==
    /\ CallReturned("top_conversations")
    /\ call.descending
    /\ Len(call.conversations) = 3
    /\ Len(result.value.returned) = 2
    /\ MetricOf(result.value.returned[1]) = MetricOf(result.value.returned[2])
    /\ result.value.returned[1].id = ConvId(2)
    /\ result.value.returned[2].id = ConvId(3)

\* C30: for a non-empty collection min <= p25 <= median <= p75 <= p90 <= max,
\* whatever the number of values; for an empty collection every numeric
\* field is 0.  (p25, the median and p75 are held doubled.)
C30_PercentilesOrdered ==
    CallReturned("compute") =>
        IF call.conversations = <<>>
        THEN /\ result.value.count = 0
             /\ result.value.total = 0
             /\ result.value.mean.num = 0
             /\ result.value.median = 0
             /\ result.value.variance.num = 0
             /\ result.value.min = 0
             /\ result.value.max = 0
             /\ result.value.p25 = 0
             /\ result.value.p75 = 0
             /\ result.value.p90 = 0
        ELSE /\ 2 * result.value.min <= result.value.p25
             /\ result.value.p25 <= result.value.median
             /\ result.value.median <= result.value.p75
             /\ result.value.p75 <= 2 * result.value.p90
             /\ result.value.p90 <= result.value.max

\* Six values, the mixed regime, with the median strictly between p25 and p75.
C30_Witness ==
    /\ CallReturned("compute")
    /\ result.value.count = 6
    /\ result.value.p25 < result.value.median
    /\ result.value.median < result.value.p75
    /\ result.value.p90 = result.value.max

SuppliedBuckets == IF call.buckets.some THEN call.buckets.v ELSE DEFAULT_BUCKETS

Contains(bucket, v) == bucket.low <= v /\ (bucket.open \/ v <= bucket.high)

\* The values counted under a name: those whose first containing bucket, in
\* list order, has that name.
CountedUnder(name, values, buckets) ==
    {i \in 1..Len(values) :
        \E b \in 1..Len(buckets) :
            /\ buckets[b].name = name
            /\ Contains(buckets[b], values[i])
            /\ \A c \in 1..(b - 1) : ~Contains(buckets[c], values[i])}

RECURSIVE SumOver(_, _)
SumOver(f, keys) ==
    IF keys = {} THEN 0
    ELSE LET k == CHOOSE x \in keys : TRUE IN f[k] + SumOver(f, keys \ {k})

\* C24: the histogram of a non-empty collection has one entry per bucket;
\* a value is counted in the first bucket of the list whose range [low, high]
\* contains it and in no other, and nowhere when no bucket contains it, so the
\* counts sum to the number of values that some bucket contains.  (Bucket
\* lists are non-empty and their names differ.)
C24_Histogram ==
    (CallReturned("compute") /\ call.conversations # <<>>) =>
        LET buckets == SuppliedBuckets
            values == CallValues
            distribution == result.value.distribution
        IN /\ DOMAIN distribution = {buckets[b].name : b \in 1..Len(buckets)}
           /\ Cardinality(DOMAIN distribution) = Len(buckets)
           /\ \A name \in DOMAIN distribution :
                 distribution[name] = Cardinality(CountedUnder(name, values, buckets))
           /\ SumOver(distribution, DOMAIN distribution) =
                 Cardinality({i \in 1..Len(values) :
                                 \E b \in 1..Len(buckets) : Contains(buckets[b], values[i])})
           /\ SumOver(distribution, DOMAIN distribution) <= result.value.count

\* Buckets b = [1, 2] and c = [2, 2] overlap: both values 2 are counted under
\* b and none under c, and the value 0 is counted nowhere.
C24_Witness ==
    /\ CallReturned("compute")
    /\ call.buckets = [some |-> TRUE, v |-> <<Bucket("b", 1, 2), Bucket("c", 2, 2)>>]
    /\ CallValues = <<2, 0, 2>>
    /\ result.value.distribution["b"] = 2
    /\ result.value.distribution["c"] = 0

\* C27: the periods of by_period tile time: every conversation created
\* between the start of the oldest period and the end of the newest one is
\* counted in exactly one period, so the counts sum to the number of such
\* conversations.
C27_PeriodsTile ==
    (CallReturned("by_period") /\ call.num_periods >= 1) =>
        LET results == result.value
            oldest == results[Len(results)].start_date.v
            newest == results[1].end_date.v
            within == {j \in 1..Len(call.conversations) :
                          /\ call.conversations[j].created.some
                          /\ oldest <= call.conversations[j].created.v
                          /\ call.conversations[j].created.v <= newest}
        IN /\ \A j \in within :
                 Cardinality({i \in 1..Len(results) :
                                 /\ results[i].start_date.v <= call.conversations[j].created.v
                                 /\ call.conversations[j].created.v <= results[i].end_date.v}) = 1
           /\ SeqSum([i \in 1..Len(results) |-> results[i].count]) = Cardinality(within)

(***************************************************************************)
(* Properties of the search in code edits and diffs (SpecDiffs)            *)
(***************************************************************************)
DiffsOfConversation(cid) ==
    {i \in 1..Len(store) :
        /\ IsDiffRow(store[i])
        /\ StartsWith(store[i].key.rest, cid \o <<Colon>>)}

OccursInAPath(term, conv) ==
    \E j \in 1..Len(StoredValue(conv).codeBlockData) :
        Occurs(term, StoredValue(conv).codeBlockData[j].file, FoldAscii)

OccursInADiffText(term, conv) ==
    \E i \in DiffsOfConversation(conv.id) :
        \/ store[i].value.originalText.some
              /\ Occurs(term, store[i].value.originalText.v, FoldAscii)
        \/ store[i].value.modifiedText.some
              /\ Occurs(term, store[i].value.modifiedText.v, FoldAscii)

\* C23: with search_diffs=True a term matches a conversation, beyond its
\* metadata and messages, exactly when it occurs in one of its code-edit file
\* paths or in the original or modified text of one of its diffs; with
\* search_diffs=False paths and diffs match nothing; so the result without
\* diffs is within the result with them.
C23_DiffsMatchPathsAndTexts ==
    (CallReturned("search_conversations") /\ call.query \in DiffTerms) =>
        /\ \A k \in 1..Len(SameListing.value) :
              IsReturned(SameListing.value[k])
                  <=> \/ OccursInStoredFields(call.query, SameListing.value[k])
                      \/ /\ call.search_diffs
                         /\ \/ OccursInAPath(call.query, SameListing.value[k])
                            \/ OccursInADiffText(call.query, SameListing.value[k])
        /\ IdsOf(search_conversations(store, call.query, call.since, call.before,
                                      call.include_empty, FALSE, call.at)) \subseteq ResultIds

(***************************************************************************)
(* Properties of the message keys (SpecKeys)                               *)
(***************************************************************************)
ListedWithAll == list_conversations(store, NoneStr, NoneStr, TRUE, call.at)

\* C26: get_messages(id) returns exactly the messages of the rows keyed
\* bubbleId:{id}:{messageId} for that very id, so no message is returned for
\* two different ids, and they are the messages that list_conversations
\* counts for id (here every message has text).
C26_MessagesOfExactId ==
    CallReturned("get_messages") =>
        /\ {result.value[k].id : k \in 1..Len(result.value)}
               = {store[i].value.bubbleId : i \in MessageRowsOf(call.composer_id)}
        /\ Len(result.value) = Cardinality(MessageRowsOf(call.composer_id))
        /\ \A other \in KeyIds \ {call.composer_id} :
              \A k \in 1..Len(result.value) :
                  \A l \in 1..Len(get_messages(store, other).value) :
                      get_messages(store, other).value[l].id # result.value[k].id
        /\ \A k \in 1..Len(ListedWithAll.value) :
              ListedWithAll.value[k].id = call.composer_id
                  => ListedWithAll.value[k].message_count = Len(result.value)

(***************************************************************************)
(* Properties of the show command (SpecTranscript)                         *)
(***************************************************************************)
\* The records list_conversations returns for the store, empty conversations
\* included, without a time filter.
ListedNow == list_conversations(store, NoneStr, NoneStr, TRUE, now).value

\* C28: the message_count that list_conversations reports for a conversation
\* equals the visible-message count that MarkdownFormatter.format_conversation
\* computes with show_empty=False from get_conversation and get_messages of
\* the same conversation.
C28_ListingAgreesWithTranscript ==
    (IsCall("format_conversation") /\ call.formatter = "markdown" /\ ~call.show_empty) =>
        \A k \in 1..Len(ListedNow) :
            ListedNow[k].id = call.composer_id
                => ListedNow[k].message_count = result.value.visible_count

\* C22: on a store without rows under the requested prefix the operations
\* return empty results: list_conversations and search_conversations return
\* the empty list when there is no composerData row, get_messages(id) returns
\* the empty list when no key starts with bubbleId:{id}:, and
\* get_code_block_diff returns None when the key of the diff is absent.
C22_EmptyResults ==
    /\ (IsCall("list_conversations") /\ SelectSeq(store, IsConvRow) = <<>>)
            => result = Returned(<<>>)
    /\ (IsCall("search_conversations") /\ SelectSeq(store, IsConvRow) = <<>>)
            => result = Returned(<<>>)
    /\ (IsCall("get_messages") /\ MessageRowsOf(call.composer_id) = {})
            => result = Returned(<<>>)
    /\ (IsCall("get_code_block_diff")
            /\ ~HasKey(store, DiffKey(call.composer_id, call.diff_id)))
            => result = Returned(NoneValue)

(***************************************************************************)
(* Properties of the connections (SpecRead)                                *)
(***************************************************************************)
\* C25: when an operation of the repository has returned or has failed, no
\* connection that it opened is still open, and at most one connection is
\* open at any moment.
C25_ConnectionsClosed ==
    /\ connections <= 1
    /\ call # NoCall => connections = 0

C29_SearchOnOneSnapshot ==
    (IsCall("search_conversations") /\ call.pc = "done" /\ result.raised = "") =>
        \A k \in 1..Len(result.value) :
            result.value[k].id \in MatchingIds(store, parse_search_query(call.query),
                                               TRUE, {}, call.search_diffs)

====
